---- MODULE Spec2Model ----
(***************************************************************************)
(* HackerTerm session multiplexer: the main process's pty table            *)
(* (main.js and its later variant), the IPC channels between main and      *)
(* renderer, and the renderer's PaneManager / TabManager with the DOM      *)
(* subtree that holds each tab's split layout.                             *)
(***************************************************************************)
EXTENDS Integers, Sequences, FiniteSets, TLC

\* ------------------------------------------------------------------ bounds
\* Pane ids handed out by ++paneIdCounter stay within 1..MaxPaneId.
MaxPaneId == 3
\* Tab ids handed out by ++tabIdCounter stay within 1..MaxTabId.
MaxTabId == 2
\* terminal-data events queued towards the renderer at one time.
MaxData == 1
\* Calls of one kind (kill, write, resize) made on the ptys, and
\* terminal-destroy messages sent by senders of any id.
MaxCalls == 2
\* Clicks on the boot screen.
MaxClicks == 2

VARIABLES
  variant,            \* which main process runs: "main.js" or "part_001"
  ptyProcesses,       \* main: keys of the Map<terminalId, pty>
  terminalIdCounter,  \* main: last terminal id handed out
  alive,              \* ptys whose onExit callback has not run yet
  destroyQ,           \* terminal ids whose terminal-destroy is on its way to main
  closeQ,             \* a window-close is on its way to main
  calls,              \* the suspended calls, in the order of their pending invoke
  dataQ,              \* terminal id -> terminal-data events on their way to the renderer
  exitQ,              \* terminal ids whose terminal-exit is on its way to the renderer
  toMain,             \* terminal-input and terminal-resize messages on their way
                      \* to main, each <<channel, terminalId>>
  quit,               \* the window was closed and the app has quit
  panes,              \* PaneManager.panes: paneId -> [tabId, terminalId]
  paneIdCounter,      \* PaneManager.paneIdCounter
  focusedPaneId,      \* PaneManager.focusedPaneId (0 is null)
  tabs,               \* keys of TabManager.tabs
  tabIdCounter,       \* TabManager.tabIdCounter
  activeTabId,        \* TabManager.activeTabId (0 is null)
  kids,               \* DOM: container element -> its children, in order
  ops,                \* suspended async calls of createTab / splitPane
  timers,             \* pending grace timers of the terminal-exit handler
  shortcuts,          \* the shortcut actions are registered
  threw,              \* a handler ended in an uncaught error or rejection
  wrote,              \* what the step just taken did to a terminal
  destroySent,        \* history: terminal id -> terminal-destroy messages sent for it
  oneAtATime,         \* history: no operation ever overlapped another or aborted
  lastSplit,          \* history: the split that has just completed undisturbed, and
                      \* which of its two panes was closed right after it
  away,               \* history: the tab a switchTab has left and the pane that
                      \* held the focus in it; back when a switchTab has returned
  centres,            \* paneId -> <<x, y>>, the centre of the pane element's
                      \* getBoundingClientRect(); drawn and read by GeoSpec only
  moved,              \* history: the last focusDirection call and the pane that
                      \* held the focus before it
  dirs,               \* the directories, the home directory aside, that the shells
                      \* can be taken to; none where the directories play no part
  cwds,               \* terminal id -> the cwd option pty.spawn was called with,
                      \* then the directory the session's shell is in ("" before)
  ptys,               \* terminal id -> the calls the main process has made on the
                      \* session's pty (kill, write, resize), until its onExit runs
  drag,               \* the divider drag under way: the closure variables of
                      \* setupDividerDrag and the style.flex of the two children
  boot,               \* the BootSequence object and the boot screen: where run()
                      \* stands, the hide timeouts pending, the onComplete calls
  ignored             \* history: the terminal-input and terminal-resize messages
                      \* handled for an id that had been handed out and that the
                      \* table did not hold

vars == << variant, ptyProcesses, terminalIdCounter, alive, destroyQ, closeQ,
           calls, dataQ, exitQ, quit, panes, paneIdCounter, focusedPaneId, tabs, tabIdCounter,
           activeTabId, kids, ops, timers, shortcuts, threw, wrote,
           destroySent, oneAtATime, lastSplit, away, centres, moved,
           dirs, cwds, ptys, toMain, ignored, drag, boot >>

mainVars == << ptyProcesses, terminalIdCounter, alive >>
\* The IPC traffic.  Electron delivers the messages of one direction in order.
\* Handlers of messages that concern different terminals commute, so the model
\* keeps only the orders that matter: the invoke requests and their replies
\* (calls), and per terminal: its create reply, then its data, then its exit.
ipcVars == << destroyQ, closeQ, calls, dataQ, exitQ >>
paneVars == << panes, paneIdCounter, focusedPaneId >>
tabVars == << tabs, tabIdCounter, activeTabId >>

\* ------------------------------------------------------------- DOM elements
\* An element is <<className, id>>.
Null == <<"null", 0>>
PaneEl(p) == <<"pane", p>>
ContentEl(t) == <<"tab-content", t>>
DividerEl(s) == <<"split-divider", s>>
\* splitPane: direction 'vertical' gives class split-horizontal.
SplitClass(direction) ==
  IF direction = "vertical" THEN "split-horizontal" ELSE "split-vertical"
SplitEl(direction, s) == <<SplitClass(direction), s>>
Directions == {"vertical", "horizontal"}

Cls(e) == e[1]
IsDivider(e) == Cls(e) = "split-divider"
IsSplit(e) == Cls(e) \in {"split-horizontal", "split-vertical"}
IsPaneEl(e) == Cls(e) = "pane"

SeqRange(s) == {s[i] : i \in 1..Len(s)}
SeqRemove(s, e) == SelectSeq(s, LAMBDA x : x # e)
IndexOf(s, e) == CHOOSE i \in 1..Len(s) : s[i] = e

\* element.parentElement
ParentElement(k, e) ==
  IF \E c \in DOMAIN k : e \in SeqRange(k[c])
  THEN CHOOSE c \in DOMAIN k : e \in SeqRange(k[c])
  ELSE Null

\* document.createElement of a container: it starts with no children.
CreateElement(k, c) == k @@ (c :> << >>)

\* element.remove()
Remove(k, e) == [c \in DOMAIN k |-> SeqRemove(k[c], e)]

\* container.appendChild(e): e leaves its old parent first.
AppendChild(k, c, e) ==
  LET k1 == Remove(k, e) IN [k1 EXCEPT ![c] = Append(@, e)]

\* An insertion that ignores the reference node and puts new last.
InsertLast(k, c, new, ref) == AppendChild(k, c, new)

\* container.insertBefore(new, ref): new leaves its old parent first.
InsertBefore(k, c, new, ref) ==
  LET k1 == Remove(k, new)
      i == IndexOf(k1[c], ref)
  IN [k1 EXCEPT ![c] = SubSeq(@, 1, i - 1) \o <<new>> \o SubSeq(@, i, Len(@))]

\* The containers below c, c included.
RECURSIVE Containers(_, _)
Containers(k, c) ==
  IF c \notin DOMAIN k THEN {}
  ELSE {c} \cup UNION {Containers(k, k[c][i]) : i \in 1..Len(k[c])}

\* The elements below c, c excluded.
Descendants(k, c) == UNION {SeqRange(k[x]) : x \in Containers(k, c)}

\* Array.from(parent.querySelectorAll('.split-divider')).forEach(d => d.remove())
RemoveAllDividers(k, parent) ==
  LET inside == Containers(k, parent)
  IN [c \in DOMAIN k |->
        IF c \in inside THEN SelectSeq(k[c], LAMBDA x : ~IsDivider(x)) ELSE k[c]]

\* Array.from(parent.children).filter(c => !c.classList.contains('split-divider'))
NonDividers(k, c) == SelectSeq(k[c], LAMBDA x : ~IsDivider(x))

\* The topmost ancestor of e (e itself when it has no parent).
RECURSIVE Top(_, _)
Top(k, e) ==
  LET p == ParentElement(k, e) IN IF p = Null THEN e ELSE Top(k, p)

\* Detached containers that nothing refers to any more are unreachable objects:
\* the DOM keeps the open tabs' content, and every detached tree that still
\* holds a registered pane's element or a container a suspended call will
\* append to.
Reachable(k, ps, ts, os) ==
  LET roots == {ContentEl(t) : t \in ts}
               \cup {Top(k, PaneEl(p)) : p \in DOMAIN ps}
               \cup {Top(k, os[o].container) : o \in DOMAIN os}
  IN {c \in DOMAIN k : Top(k, c) \in roots}
Collect(k, ps, ts, os) ==
  LET keep == Reachable(k, ps, ts, os) IN [c \in keep |-> k[c]]

\* ------------------------------------------------------------------ registry
\* getPanesForTab: the Map iterates in insertion order, which is the order of
\* the pane ids; the result is the ascending sequence of the tab's pane ids.
RECURSIVE SortedSeq(_)
SortedSeq(S) ==
  IF S = {} THEN << >>
  ELSE LET m == CHOOSE x \in S : \A y \in S : x <= y
       IN <<m>> \o SortedSeq(S \ {m})
getPanesForTab(ps, tabId) ==
  SortedSeq({p \in DOMAIN ps : ps[p].tabId = tabId})
getPaneCountForTab(ps, tabId) == Len(getPanesForTab(ps, tabId))

\* focusPane: the focus moves only when the pane is registered.
focusPane(ps, focused, paneId) ==
  IF paneId \in DOMAIN ps THEN paneId ELSE focused

\* A lookup that ignores the terminal id and takes the registry's first pane.
PaneOfAnyTerminal(ps, terminalId) ==
  IF DOMAIN ps = {} THEN 0 ELSE CHOOSE p \in DOMAIN ps : \A q \in DOMAIN ps : p <= q

\* A lookup that takes the newest pane of the registry, whatever its terminal.
PaneOfNewest(ps, terminalId) ==
  IF DOMAIN ps = {} THEN 0 ELSE CHOOSE p \in DOMAIN ps : \A q \in DOMAIN ps : p >= q

\* The first pane of the registry holding terminalId (0: none), as the
\* terminal-data and terminal-exit handlers find it.
PaneOfTerminal(ps, terminalId) ==
  LET hit == {p \in DOMAIN ps : ps[p].terminalId = terminalId}
  IN IF hit = {} THEN 0 ELSE CHOOSE p \in hit : \A q \in hit : p <= q

\* ------------------------------------------------------------------ history
\* null as a working directory, and os.homedir().
NullCwd == "null"
\* A pty on which kill(), write() and resize() have not been called.
NoCalls == [kill |-> 0, write |-> 0, resize |-> 0]
HomeDir == "~"

\* No divider is dragged; flex is what onMouseUp leaves, flex: 1 on both
\* children.
FlexOne == [grow |-> 1, basis |-> <<0, 0>>]
NoDrag == [isDragging |-> FALSE, container |-> <<"null", 0>>, startPos |-> 0,
           startSizes |-> <<0, 0>>, flex |-> FlexOne]
\* The boot sequence as the other specifications start from it: run() has
\* ended, the screen is gone and the one onComplete is about to call createTab.
BootOver == [pc |-> "ended", line |-> 0, timers |-> 0, hidden |-> TRUE,
             displayed |-> FALSE, completed |-> 1, clicks |-> 0,
             bootScreen |-> TRUE, bootOutput |-> TRUE]
NoWrite == [pane |-> 0, paneTerminal |-> 0, terminalId |-> 0, late |-> FALSE]
NoSnap == [cls |-> "none", id |-> 0, kids |-> << >>]
NoSplit == [pane |-> 0, newPane |-> 0, tabId |-> 0, direction |-> "", snap |-> NoSnap,
            closed |-> ""]

TerminalIds == 1..MaxPaneId
RECURSIVE SumOver(_, _)
SumOver(f, S) ==
  IF S = {} THEN 0
  ELSE LET x == CHOOSE y \in S : TRUE IN f[x] + SumOver(f, S \ {x})
DataQueued == SumOver(dataQ, DOMAIN dataQ)

\* ---------------------------------------------------------------- DOM shape
\* The subtree below e without the identities of its containers.
RECURSIVE Shape(_, _)
Shape(k, e) ==
  IF e \in DOMAIN k
  THEN [cls |-> Cls(e), id |-> 0,
        kids |-> [i \in 1..Len(k[e]) |-> Shape(k, k[e][i])]]
  ELSE [cls |-> Cls(e), id |-> IF IsPaneEl(e) THEN e[2] ELSE 0, kids |-> << >>]
TabShape(k, t) == Shape(k, ContentEl(t))


\* State after the boot sequence's onComplete has constructed PaneManager and
\* TabManager, before its createTab call.
\* The history of tab switches.  A step in which switchTab alone runs (no pane
\* and no tab comes or goes, the active tab changes) leaves a tab; the record
\* is dropped when a pane of that tab is created or closed, when the tab is
\* closed, when the focus moves inside that tab, and one step after the return.
NoAway == [tab |-> 0, pane |-> 0, back |-> FALSE]
\* The value the history keeps throughout a behaviour that does not record the
\* tab switches.
Untracked == [tab |-> -1, pane |-> 0, back |-> FALSE]
NoMove == [direction |-> "", from |-> 0]

PanesOf(ps, tabId) == {p \in DOMAIN ps : ps[p].tabId = tabId}

Track ==
  LET switched == /\ panes' = panes
                  /\ tabs' = tabs
                  /\ activeTabId' # activeTabId
  IN away' =
       IF away = Untracked THEN Untracked
       ELSE IF quit' \/ away.back THEN NoAway
       ELSE IF away.tab = 0
       THEN IF /\ switched
               /\ activeTabId \in tabs
               /\ focusedPaneId \in PanesOf(panes, activeTabId)
            THEN [tab |-> activeTabId, pane |-> focusedPaneId, back |-> FALSE]
            ELSE NoAway
       ELSE IF \/ away.tab \notin tabs'
               \/ PanesOf(panes', away.tab) # PanesOf(panes, away.tab)
       THEN NoAway
       ELSE IF activeTabId' = away.tab
       THEN IF switched THEN [away EXCEPT !.back = TRUE] ELSE NoAway
       ELSE IF focusedPaneId' \in PanesOf(panes', away.tab) /\ focusedPaneId' # focusedPaneId
       THEN NoAway
       ELSE away

\* The state when onComplete starts: nothing created yet.
Constructed ==
  /\ variant \in {"main.js", "part_001"}
  /\ ptyProcesses = {}
  /\ terminalIdCounter = 0
  /\ alive = {}
  /\ destroyQ = {}
  /\ closeQ = FALSE
  /\ calls = << >>
  /\ dataQ = [t \in TerminalIds |-> 0]
  /\ exitQ = {}
  /\ quit = FALSE
  /\ panes = [p \in {} |-> 0]
  /\ paneIdCounter = 0
  /\ focusedPaneId = 0
  /\ tabs = {}
  /\ tabIdCounter = 0
  /\ activeTabId = 0
  /\ kids = [c \in {} |-> << >>]
  /\ ops = [o \in {} |-> 0]
  /\ timers = {}
  /\ shortcuts = FALSE
  /\ threw = FALSE
  /\ wrote = NoWrite
  /\ destroySent = [t \in TerminalIds |-> 0]
  /\ oneAtATime = TRUE
  /\ lastSplit = NoSplit
  /\ centres = << >>
  /\ moved = NoMove
  /\ cwds = [t \in TerminalIds |-> ""]
  /\ ptys = [t \in TerminalIds |-> NoCalls]
  /\ toMain = {}
  /\ ignored = {}
  /\ drag = NoDrag

Init ==
  /\ Constructed
  /\ boot = BootOver
  /\ dirs = {}
  /\ away = Untracked

\* ------------------------------------------------------------ main process
\* A counter that hands its last id out again.
sameId(counter) == IF counter = 0 THEN 1 ELSE counter

\* ++terminalIdCounter, ++paneIdCounter, ++tabIdCounter: the value the
\* pre-increment yields, which is both the new id and the counter's new value.
nextId(counter) == counter + 1

\* The terminal-create request the main process handles next: invokes are
\* handled in the order they were sent.
NextCreate ==
  LET waiting == {i \in 1..Len(calls) : ops[calls[i]].pc = "create"}
  IN IF waiting = {} THEN 0
     ELSE calls[CHOOSE i \in waiting : \A j \in waiting : i <= j]

\* createPtyProcess, behind ipcMain.handle('terminal-create'): the id is taken
\* before pty.spawn, which either returns a process or throws; the reply (the
\* id, or the rejection) travels back to the suspended createPane.  The
\* directory the request carried and the id it was read from are not read again.
createPtyProcess(o, spawned) ==
  LET terminalId == nextId(terminalIdCounter)
      initialCwd == ops[o].cwd
      cwd == IF initialCwd \in {NullCwd, ""} THEN HomeDir ELSE initialCwd
  IN /\ terminalIdCounter' = terminalId
     /\ cwds' = [cwds EXCEPT ![terminalId] = cwd]
     /\ IF spawned
        THEN /\ ptyProcesses' = ptyProcesses \cup {terminalId}
             /\ alive' = alive \cup {terminalId}
             /\ ops' = [ops EXCEPT ![o].pc = "created", ![o].terminalId = terminalId,
                                    ![o].asked = 0, ![o].cwd = NullCwd]
        ELSE /\ UNCHANGED << ptyProcesses, alive >>
             /\ ops' = [ops EXCEPT ![o].pc = "failed", ![o].asked = 0,
                                    ![o].cwd = NullCwd]

MainTerminalCreate ==
  /\ NextCreate # 0
  /\ \E spawned \in BOOLEAN : createPtyProcess(NextCreate, spawned)
  /\ wrote' = NoWrite
  /\ UNCHANGED << boot, ignored, toMain, ptys, drag, centres, moved, dirs, variant, ipcVars, quit, paneVars, tabVars, kids, timers,
                  shortcuts, threw, destroySent, oneAtATime, lastSplit >>
  /\ Track

\* A terminal-destroy that clears the whole table.
terminalDestroyAll(table, terminalId) == {}

\* ipcMain.on('terminal-destroy'): kill and delete, when the id is in the table.
terminalDestroy(table, terminalId) == table \ {terminalId}

\* A terminal-destroy that calls kill() without looking the id up.
killUnchecked(table, made, terminalId) == [made EXCEPT ![terminalId].kill = @ + 1]

\* The kill() of terminal-destroy: made on the pty that the table holds for the id.
killOnDestroy(table, made, terminalId) ==
  IF terminalId \in table THEN [made EXCEPT ![terminalId].kill = @ + 1] ELSE made

MainTerminalDestroy(terminalId) ==
  /\ terminalId \in destroyQ
  /\ destroyQ' = destroyQ \ {terminalId}
  /\ ptys' = killOnDestroy(ptyProcesses, ptys, terminalId)
  /\ ptyProcesses' = terminalDestroy(ptyProcesses, terminalId)
  /\ wrote' = NoWrite
  /\ UNCHANGED << boot, ignored, toMain, drag, centres, moved, dirs, cwds, variant, terminalIdCounter, alive, closeQ, calls, dataQ, exitQ,
                  quit, paneVars, tabVars, kids, ops, timers, shortcuts, threw,
                  destroySent, oneAtATime, lastSplit >>
  /\ Track

\* ipcMain.on('window-close') and app.on('window-all-closed'): the window and its
\* renderer are gone, every pty is killed, the table is cleared, the app quits.
MainWindowClose ==
  /\ closeQ
  /\ quit' = TRUE
  /\ ptyProcesses' = {}
  /\ alive' = {}
  /\ destroyQ' = {}
  /\ closeQ' = FALSE
  /\ calls' = << >>
  /\ dataQ' = [t \in TerminalIds |-> 0]
  /\ exitQ' = {}
  /\ panes' = [p \in {} |-> 0]
  /\ focusedPaneId' = 0
  /\ tabs' = {}
  /\ activeTabId' = 0
  /\ kids' = [c \in {} |-> << >>]
  /\ ops' = [o \in {} |-> 0]
  /\ timers' = {}
  /\ wrote' = NoWrite
  /\ lastSplit' = NoSplit
  /\ ptys' = [t \in DOMAIN ptys |-> NoCalls]
  /\ toMain' = {}
  /\ UNCHANGED << boot, ignored, drag, centres, moved, dirs, cwds, variant, terminalIdCounter, paneIdCounter, tabIdCounter,
                  shortcuts, threw, destroySent, oneAtATime >>
  /\ Track

\* A terminal-input that writes without looking the id up.
writeUnchecked(table, made, terminalId) == [made EXCEPT ![terminalId].write = @ + 1]

\* ipcMain.on('terminal-input'): write() on the pty the table holds for the id.
terminalInput(table, made, terminalId) ==
  IF terminalId \in table THEN [made EXCEPT ![terminalId].write = @ + 1] ELSE made

\* ipcMain.on('terminal-resize'): resize() on the pty the table holds for the id.
terminalResize(table, made, terminalId) ==
  IF terminalId \in table THEN [made EXCEPT ![terminalId].resize = @ + 1] ELSE made

MainTerminalInput(terminalId) ==
  /\ <<"terminal-input", terminalId>> \in toMain
  /\ toMain' = toMain \ {<<"terminal-input", terminalId>>}
  /\ ptys' = terminalInput(ptyProcesses, ptys, terminalId)
  /\ ignored' = IF terminalId \in ptyProcesses \/ terminalId > terminalIdCounter
                THEN ignored
                ELSE ignored \cup {<<"terminal-input", terminalId>>}
  /\ wrote' = NoWrite
  /\ UNCHANGED << boot, drag, centres, moved, dirs, cwds, variant, mainVars, ipcVars, quit, paneVars,
                  tabVars, kids, ops, timers, shortcuts, threw, destroySent,
                  oneAtATime, lastSplit >>
  /\ Track

MainTerminalResize(terminalId) ==
  /\ <<"terminal-resize", terminalId>> \in toMain
  /\ toMain' = toMain \ {<<"terminal-resize", terminalId>>}
  /\ ptys' = terminalResize(ptyProcesses, ptys, terminalId)
  /\ ignored' = IF terminalId \in ptyProcesses \/ terminalId > terminalIdCounter
                THEN ignored
                ELSE ignored \cup {<<"terminal-resize", terminalId>>}
  /\ wrote' = NoWrite
  /\ UNCHANGED << boot, drag, centres, moved, dirs, cwds, variant, mainVars, ipcVars, quit, paneVars,
                  tabVars, kids, ops, timers, shortcuts, threw, destroySent,
                  oneAtATime, lastSplit >>
  /\ Track

\* Whether the main process forwards an event of terminalId to the renderer:
\* main.js sends while the window exists; the variant looks the id up in the
\* table first.
Forwards(v, table, terminalId) ==
  IF v = "main.js" THEN TRUE ELSE terminalId \in table

\* ptyProcess.onData
PtyData(terminalId) ==
  /\ terminalId \in alive
  /\ DataQueued < MaxData
  /\ Forwards(variant, ptyProcesses, terminalId)
  /\ dataQ' = [dataQ EXCEPT ![terminalId] = @ + 1]
  /\ wrote' = NoWrite
  /\ UNCHANGED << boot, ignored, toMain, ptys, drag, centres, moved, dirs, cwds, variant, mainVars, destroyQ, closeQ, calls, exitQ, quit,
                  paneVars, tabVars, kids, ops, timers, shortcuts, threw,
                  destroySent, oneAtATime, lastSplit >>
  /\ Track

\* ptyProcess.onExit: of its own accord or after kill().
PtyExit(terminalId) ==
  /\ terminalId \in alive
  /\ alive' = alive \ {terminalId}
  /\ exitQ' = IF Forwards(variant, ptyProcesses, terminalId)
              THEN exitQ \cup {terminalId} ELSE exitQ
  /\ ptyProcesses' = ptyProcesses \ {terminalId}
  /\ ptys' = [ptys EXCEPT ![terminalId] = NoCalls]
  /\ wrote' = NoWrite
  /\ UNCHANGED << boot, ignored, toMain, drag, centres, moved, dirs, cwds, variant, terminalIdCounter, destroyQ, closeQ, calls, dataQ,
                  quit, paneVars, tabVars, kids, ops, timers, shortcuts, threw,
                  destroySent, oneAtATime, lastSplit >>
  /\ Track

\* ------------------------------------------------------- renderer: helpers
\* The key a new suspended call is filed under.
SmallestFree(S) == CHOOSE n \in 1..(Cardinality(S) + 1) : n \notin S
\* A delete that takes the later entries with it.
DropFrom(f, x) == [y \in {z \in DOMAIN f : z < x} |-> f[y]]
\* this.panes.delete(paneId)
Drop(f, x) == [y \in DOMAIN f \ {x} |-> f[y]]
MaxOf(S) == CHOOSE x \in S : \A y \in S : y <= x
\* The suspended calls once call o has run to its end.
Ended(os, o) == [y \in DOMAIN os \ {o} |-> os[y]]

\* Ids still to be taken by calls suspended before their ++counter.
PendingPaneIds == Cardinality({o \in DOMAIN ops : ops[o].pc = "cwd"})
PendingTabIds ==
  Cardinality({o \in DOMAIN ops : ops[o].pc = "cwd" /\ ops[o].kind = "createTab"})

\* Calls on tab tabId that are suspended see its layout change under them.
DisturbTab(os, tabId) ==
  [o \in DOMAIN os |-> IF os[o].tabId = tabId
                       THEN [os[o] EXCEPT !.alone = FALSE, !.snap = NoSnap]
                       ELSE os[o]]
ForgetSplit(tabId) == IF lastSplit.tabId = tabId THEN NoSplit ELSE lastSplit
\* The destroy history after one ipcRenderer.send('terminal-destroy', id) for
\* each id of ids.
Sent(sent, ids) == [k \in DOMAIN sent |-> sent[k] + IF k \in ids THEN 1 ELSE 0]

\* The create reply of terminalId has reached the renderer.
Replied(terminalId) == \A o \in DOMAIN ops : ops[o].terminalId # terminalId

\* A suspended call.  asked is the terminal id its terminal-get-cwd carries (0
\* when none was sent) and cwd the answer, the call's currentCwd.
NewCall(kind, pane, tabId, direction, snap) ==
  [kind |-> kind, pc |-> "cwd", pane |-> pane, tabId |-> tabId,
   direction |-> direction, newPane |-> 0, container |-> Null, terminalId |-> 0,
   snap |-> snap, alone |-> TRUE, asked |-> 0, cwd |-> NullCwd]

\* A closePane that leaves the split with its one child where it is.
CollapseKeep(k, parent, grandparent, child) == k

\* A collapse that puts the surviving child last in the grandparent.
CollapseToEnd(k, parent, grandparent, child) ==
  Remove(AppendChild(k, grandparent, child), parent)

\* closePane's collapse of a split left with one child: the child takes the
\* split's place in the grandparent and the split is removed.
Collapse(k, parent, grandparent, child) ==
  Remove(InsertBefore(k, grandparent, child, parent), parent)

\* PaneManager.closePane: the registry, the DOM and the focus it leaves, the
\* terminal-destroy it sent, and whether it ended in a TypeError (a null
\* parentElement read, or insertBefore on a null grandparent).
closePane(ps, k, focused, paneId) ==
  IF paneId \notin DOMAIN ps
  THEN [panes |-> ps, kids |-> k, focused |-> focused, destroy |-> {},
        threw |-> FALSE]
  ELSE
    LET pane == ps[paneId]
        parent == ParentElement(k, PaneEl(paneId))
        grandparent == ParentElement(k, parent)
        k1 == Remove(k, PaneEl(paneId))
        ps1 == Drop(ps, paneId)
        remaining == NonDividers(k1, parent)
        k2 == RemoveAllDividers(k1, parent)
        fails == IsSplit(parent) /\ Len(remaining) = 1 /\ grandparent = Null
        k3 == IF ~IsSplit(parent) THEN k1
              ELSE IF Len(remaining) = 1
                   THEN IF grandparent = Null THEN k2
                        ELSE Collapse(k2, parent, grandparent, remaining[1])
                   ELSE IF Len(remaining) = 0 THEN Remove(k2, parent)
                   ELSE k2
        tabPanes == getPanesForTab(ps1, pane.tabId)
        f == IF focused # paneId THEN focused
             ELSE IF Len(tabPanes) > 0 THEN focusPane(ps1, focused, tabPanes[1])
             ELSE 0
    IN IF parent = Null
       THEN [panes |-> ps, kids |-> k, focused |-> focused,
             destroy |-> {pane.terminalId}, threw |-> TRUE]
       ELSE [panes |-> ps1, kids |-> k3, focused |-> IF fails THEN focused ELSE f,
             destroy |-> {pane.terminalId}, threw |-> fails]

\* A destroyAllPanesInTab that does not look at the tab.
destroyAllPanes(ps, k, tabId) ==
  [panes |-> [p \in {} |-> 0],
   kids |-> [c \in DOMAIN k |-> SelectSeq(k[c], LAMBDA x : ~IsPaneEl(x))],
   destroy |-> {ps[p].terminalId : p \in DOMAIN ps}]

\* PaneManager.destroyAllPanesInTab
destroyAllPanesInTab(ps, k, tabId) ==
  LET gone == {p \in DOMAIN ps : ps[p].tabId = tabId}
  IN [panes |-> [p \in DOMAIN ps \ gone |-> ps[p]],
      kids |-> [c \in DOMAIN k |->
                  SelectSeq(k[c], LAMBDA x : x \notin {PaneEl(p) : p \in gone})],
      destroy |-> {ps[p].terminalId : p \in gone}]

\* TabManager.switchTab: the active tab and the focus it leaves.
switchTab(ts, ps, active, focused, tabId) ==
  IF tabId \notin ts THEN [active |-> active, focused |-> focused]
  ELSE LET tabPanes == getPanesForTab(ps, tabId)
       IN [active |-> tabId,
           focused |-> IF Len(tabPanes) > 0 THEN focusPane(ps, focused, tabPanes[1])
                       ELSE focused]

\* ------------------------------------------------------- renderer: createTab
\* TabManager.createTab from ++tabIdCounter to the await inside createPane
\* (createPane's ++paneIdCounter and its terminal-create request).
createTabRest(o, others, queue, asked, currentCwd) ==
  LET tabId == nextId(tabIdCounter)
      paneId == nextId(paneIdCounter)
      call == [NewCall("createTab", 0, tabId, "", NoSnap) EXCEPT
                 !.pc = "create", !.newPane = paneId,
                 !.container = ContentEl(tabId),
                 !.asked = asked, !.cwd = currentCwd]
  IN /\ tabIdCounter' = tabId
     /\ tabs' = tabs \cup {tabId}
     /\ paneIdCounter' = paneId
     /\ ops' = others @@ (o :> call)
     /\ calls' = Append(queue, o)
     /\ kids' = Collect(CreateElement(kids, ContentEl(tabId)), panes, tabs', ops')

\* createTab is called: by the boot sequence's onComplete first, later by the
\* new-tab button or the tab.new shortcut.  With a focused pane it first awaits
\* terminal-get-cwd; without one getFocusedPaneCwd answers null at once.
createTab ==
  /\ ~quit
  /\ tabIdCounter + PendingTabIds < MaxTabId
  /\ paneIdCounter + PendingPaneIds < MaxPaneId
  /\ LET o == SmallestFree(DOMAIN ops)
     IN IF focusedPaneId \in DOMAIN panes
        THEN /\ ops' = ops @@ (o :> [NewCall("createTab", 0, 0, "", NoSnap) EXCEPT
                                       !.asked = panes[focusedPaneId].terminalId])
             /\ calls' = Append(calls, o)
             /\ UNCHANGED << tabs, tabIdCounter, paneIdCounter, kids >>
        ELSE createTabRest(o, ops, calls, 0, NullCwd)
  /\ oneAtATime' = (oneAtATime /\ DOMAIN ops = {})
  /\ wrote' = NoWrite
  /\ UNCHANGED << boot, ignored, toMain, ptys, drag, centres, moved, dirs, cwds, variant, mainVars, destroyQ, closeQ, dataQ, exitQ, quit, panes,
                  focusedPaneId, activeTabId, timers, shortcuts, threw,
                  destroySent, lastSplit >>
  /\ Track

\* ------------------------------------------------------- renderer: splitPane
\* The pane.splitVertical / pane.splitHorizontal shortcuts: splitPane on the
\* focused pane, up to its await of getPaneCwd.
splitPane(direction) ==
  /\ shortcuts
  /\ focusedPaneId \in DOMAIN panes
  /\ paneIdCounter + PendingPaneIds < MaxPaneId
  /\ LET o == SmallestFree(DOMAIN ops)
         pane == panes[focusedPaneId]
     IN /\ ops' = ops @@ (o :> [NewCall("splitPane", focusedPaneId, pane.tabId,
                                        direction,
                                        Shape(kids, Top(kids, PaneEl(focusedPaneId))))
                                  EXCEPT !.asked = pane.terminalId])
        /\ calls' = Append(calls, o)
  /\ oneAtATime' = (oneAtATime /\ DOMAIN ops = {})
  /\ wrote' = NoWrite
  /\ UNCHANGED << boot, ignored, toMain, ptys, drag, centres, moved, dirs, cwds, variant, mainVars, destroyQ, closeQ, dataQ, exitQ, quit,
                  paneVars, tabVars, kids, timers, shortcuts, threw, destroySent,
                  lastSplit >>
  /\ Track

\* splitPane after its await: the new split container takes the pane's place and
\* receives the pane and a divider; then createPane's ++paneIdCounter and its
\* terminal-create request.  A pane closed meanwhile has no parentElement and
\* insertBefore on null throws.
splitPaneRest(o, currentCwd) ==
  LET call == [ops[o] EXCEPT !.cwd = currentCwd]
      el == PaneEl(call.pane)
      parentElement == ParentElement(kids, el)
      paneId == nextId(paneIdCounter)
      splitContainer == SplitEl(call.direction, paneId)
      k1 == InsertBefore(CreateElement(kids, splitContainer), parentElement,
                         splitContainer, el)
      k2 == AppendChild(AppendChild(k1, splitContainer, el), splitContainer,
                        DividerEl(paneId))
  IN IF parentElement = Null
     THEN /\ ops' = Ended(ops, o)
          /\ calls' = Tail(calls)
          /\ threw' = TRUE
          /\ oneAtATime' = FALSE
          /\ kids' = Collect(kids, panes, tabs, ops')
          /\ UNCHANGED << paneIdCounter, lastSplit >>
     ELSE /\ paneIdCounter' = paneId
          /\ ops' = [DisturbTab(ops, call.tabId) EXCEPT
                       ![o] = [call EXCEPT !.pc = "create", !.newPane = paneId,
                                           !.container = splitContainer]]
          /\ calls' = Append(Tail(calls), o)
          /\ kids' = Collect(k2, panes, tabs, ops')
          /\ lastSplit' = ForgetSplit(call.tabId)
          /\ UNCHANGED << threw, oneAtATime >>

\* A probe that reports the home directory whatever the shell's directory is.
probeHome(cwd, output) == HomeDir

\* What lsof prints for the shell of a session: its directory, nothing, or
\* execSync throws.
probe(cwd, output) == IF output = "cwd" THEN cwd ELSE output

\* ipcMain.handle('terminal-get-cwd'): null for an id that is not in the table,
\* for an empty output and for a probe that throws.
terminalGetCwd(table, dirOf, terminalId, output) ==
  IF terminalId \notin table THEN NullCwd
  ELSE LET cwd == probe(dirOf[terminalId], output)
       IN IF cwd \in {"", "throws"} THEN NullCwd ELSE cwd

\* The main process handles terminal-get-cwd and its reply resumes the call that
\* awaits it.
OnCwdReply ==
  /\ calls # << >>
  /\ ops[Head(calls)].pc = "cwd"
  /\ \E output \in {"cwd", "", "throws"} :
       LET o == Head(calls)
           currentCwd == terminalGetCwd(ptyProcesses, cwds, ops[o].asked, output)
       IN IF ops[o].kind = "createTab"
          THEN /\ createTabRest(o, Ended(ops, o), Tail(calls), ops[o].asked,
                                currentCwd)
               /\ UNCHANGED << threw, oneAtATime, lastSplit >>
          ELSE /\ splitPaneRest(o, currentCwd)
               /\ UNCHANGED << tabs, tabIdCounter >>
  /\ wrote' = NoWrite
  /\ UNCHANGED << boot, ignored, toMain, ptys, drag, centres, moved, dirs, cwds, variant, mainVars, destroyQ, closeQ, dataQ, exitQ, quit, panes,
                  focusedPaneId, activeTabId, timers, shortcuts, destroySent >>
  /\ Track

\* PaneManager.createPane after its await of terminal-create, and what its
\* caller does next: the pane element is appended to the container, the pane is
\* registered and focused; createTab then switches to its tab, and the boot
\* sequence's onComplete registers the shortcuts after its createTab.
createPaneRest(o) ==
  LET call == ops[o]
      paneId == call.newPane
      k1 == AppendChild(kids, call.container, PaneEl(paneId))
      ps1 == panes @@ (paneId :> [tabId |-> call.tabId,
                                  terminalId |-> call.terminalId])
      f1 == focusPane(ps1, focusedPaneId, paneId)
      sw == IF call.kind = "createTab"
            THEN switchTab(tabs, ps1, activeTabId, f1, call.tabId)
            ELSE [active |-> activeTabId, focused |-> f1]
  IN /\ panes' = ps1
     /\ focusedPaneId' = sw.focused
     /\ activeTabId' = sw.active
     /\ ops' = DisturbTab(Ended(ops, o), call.tabId)
     /\ kids' = Collect(k1, ps1, tabs, ops')
     /\ shortcuts' = (shortcuts \/ (call.kind = "createTab" /\ call.tabId = 1))
     /\ lastSplit' = IF call.kind = "splitPane" /\ call.alone
                     THEN [pane |-> call.pane, newPane |-> paneId,
                           tabId |-> call.tabId, direction |-> call.direction,
                           snap |-> call.snap, closed |-> ""]
                     ELSE ForgetSplit(call.tabId)

OnCreateReply ==
  /\ calls # << >>
  /\ ops[Head(calls)].pc = "created"
  /\ createPaneRest(Head(calls))
  /\ calls' = Tail(calls)
  /\ wrote' = NoWrite
  /\ UNCHANGED << boot, ignored, toMain, ptys, drag, centres, moved, dirs, cwds, variant, mainVars, destroyQ, closeQ, dataQ, exitQ, quit,
                  paneIdCounter, tabs, tabIdCounter, timers, threw, destroySent,
                  oneAtATime >>
  /\ Track

\* terminal-create rejected: createPane throws at its await and the calling
\* createTab or splitPane ends there, with nothing undone.
OnCreateError ==
  /\ calls # << >>
  /\ ops[Head(calls)].pc = "failed"
  /\ ops' = Ended(ops, Head(calls))
  /\ calls' = Tail(calls)
  /\ kids' = Collect(kids, panes, tabs, ops')
  /\ threw' = TRUE
  /\ oneAtATime' = FALSE
  /\ wrote' = NoWrite
  /\ UNCHANGED << boot, ignored, toMain, ptys, drag, centres, moved, dirs, cwds, variant, mainVars, destroyQ, closeQ, dataQ, exitQ, quit,
                  paneVars, tabVars, timers, shortcuts, destroySent, lastSplit >>
  /\ Track

\* ------------------------------------------------- renderer: IPC handlers
\* ipcRenderer.on('terminal-data'): written to the first registered pane of that
\* terminal id, to none when there is no such pane.
OnTerminalData(terminalId) ==
  /\ dataQ[terminalId] > 0
  /\ Replied(terminalId)
  /\ dataQ' = [dataQ EXCEPT ![terminalId] = @ - 1]
  /\ LET p == PaneOfTerminal(panes, terminalId)
     IN wrote' = [pane |-> p,
                  paneTerminal |-> IF p = 0 THEN 0 ELSE panes[p].terminalId,
                  terminalId |-> terminalId,
                  late |-> destroySent[terminalId] > 0]
  /\ UNCHANGED << boot, ignored, toMain, ptys, drag, centres, moved, dirs, cwds, variant, mainVars, destroyQ, closeQ, calls, exitQ, quit,
                  paneVars, tabVars, kids, ops, timers, shortcuts, threw,
                  destroySent, oneAtATime, lastSplit >>
  /\ Track

\* A timer that closes over the registry's first pane instead of the pane found.
GraceTimerOfFirst(ps, paneId) ==
  LET first == CHOOSE p \in DOMAIN ps : \A q \in DOMAIN ps : p <= q
  IN [paneId |-> first, tabId |-> ps[first].tabId,
      terminalId |-> ps[paneId].terminalId,
      alone |-> getPaneCountForTab(ps, ps[paneId].tabId) <= 1]

\* What the timer callback of the terminal-exit handler closes over: the pane
\* id and the pane object found for the terminal id.  The field alone is
\* history: the pane was the only pane of its tab when the timer was started.
GraceTimer(ps, paneId) ==
  [paneId |-> paneId, tabId |-> ps[paneId].tabId,
   terminalId |-> ps[paneId].terminalId,
   alone |-> getPaneCountForTab(ps, ps[paneId].tabId) <= 1]

\* ipcRenderer.on('terminal-exit'): the pane of that terminal id, if registered,
\* gets the exit message and a one-second timer that holds the pane object.
OnTerminalExit(terminalId) ==
  /\ terminalId \in exitQ
  /\ dataQ[terminalId] = 0
  /\ Replied(terminalId)
  /\ exitQ' = exitQ \ {terminalId}
  /\ LET p == PaneOfTerminal(panes, terminalId)
     IN timers' = IF p = 0 THEN timers
                  ELSE timers \cup {GraceTimer(panes, p)}
  /\ wrote' = NoWrite
  /\ UNCHANGED << boot, ignored, toMain, ptys, drag, centres, moved, dirs, cwds, variant, mainVars, destroyQ, closeQ, calls, dataQ, quit,
                  paneVars, tabVars, kids, ops, shortcuts, threw, destroySent,
                  oneAtATime, lastSplit >>
  /\ Track

\* A call of closePane(paneId) and everything it leaves behind.
DoClosePane(paneId) ==
  LET r == closePane(panes, kids, focusedPaneId, paneId)
      ran == paneId \in DOMAIN panes
      tabId == IF ran THEN panes[paneId].tabId ELSE 0
  IN /\ panes' = r.panes
     /\ focusedPaneId' = r.focused
     /\ destroyQ' = destroyQ \cup r.destroy
     /\ destroySent' = Sent(destroySent, r.destroy)
     /\ threw' = (threw \/ r.threw)
     /\ ops' = IF ran THEN DisturbTab(ops, tabId) ELSE ops
     /\ kids' = Collect(r.kids, r.panes, tabs, ops')
     /\ lastSplit' = IF ~ran THEN lastSplit
                     ELSE IF lastSplit.closed = "" /\ paneId = lastSplit.newPane
                     THEN [lastSplit EXCEPT !.closed = "new"]
                     ELSE IF lastSplit.closed = "" /\ paneId = lastSplit.pane
                     THEN [lastSplit EXCEPT !.closed = "old"]
                     ELSE ForgetSplit(tabId)
     /\ oneAtATime' = (oneAtATime /\ ~r.threw /\ (ran => DOMAIN ops = {}))

\* A test that never finds a sibling, and one that counts the pane itself.
NeverSiblings(ps, tabId) == FALSE
HasPanes(ps, tabId) == getPaneCountForTab(ps, tabId) >= 1

\* The test the timer callback makes when it runs.
HasSiblings(ps, tabId) == getPaneCountForTab(ps, tabId) > 1

\* The timer of the terminal-exit handler fires: closePane when the pane's tab
\* has more than one registered pane.
TimerFire(paneId) ==
  \E tm \in timers :
    /\ tm.paneId = paneId
    /\ timers' = timers \ {tm}
    /\ IF HasSiblings(panes, tm.tabId)
       THEN DoClosePane(tm.paneId)
       ELSE UNCHANGED << panes, focusedPaneId, destroyQ, destroySent, threw, ops,
                         kids, lastSplit, oneAtATime >>
    /\ wrote' = NoWrite
    /\ UNCHANGED << boot, ignored, toMain, ptys, drag, centres, moved, dirs, cwds, variant, mainVars, closeQ, calls, dataQ, exitQ, quit,
                    paneIdCounter, tabVars, shortcuts >>
    /\ Track

\* ------------------------------------------------- renderer: user actions
\* The pane.close shortcut: closePane on the focused pane when its tab has more
\* than one registered pane.
paneClose ==
  /\ shortcuts
  /\ focusedPaneId \in DOMAIN panes
  /\ getPaneCountForTab(panes, panes[focusedPaneId].tabId) > 1
  /\ DoClosePane(focusedPaneId)
  /\ wrote' = NoWrite
  /\ UNCHANGED << boot, ignored, toMain, ptys, drag, centres, moved, dirs, cwds, variant, mainVars, closeQ, calls, dataQ, exitQ, quit,
                  paneIdCounter, tabVars, timers, shortcuts >>
  /\ Track

\* A test that lets the only tab be closed like any other.
IsNoTab(ts) == Cardinality(ts) <= 0
\* closeTab: this.tabs.size <= 1
IsLastTab(ts) == Cardinality(ts) <= 1

\* TabManager.closeTab, from a tab's close button or the tab.close shortcut.
\* On the only tab it sends window-close (once one is on its way a second adds
\* nothing the main process would treat differently).
closeTab(tabId) ==
  /\ tabId \in tabs
  /\ IF IsLastTab(tabs)
     THEN /\ ~closeQ
          /\ closeQ' = TRUE
          /\ UNCHANGED << panes, focusedPaneId, tabs, activeTabId, kids, ops,
                          destroyQ, destroySent, lastSplit, oneAtATime >>
     ELSE LET d == destroyAllPanesInTab(panes, kids, tabId)
              remainingTabs == tabs \ {tabId}
              sw == IF activeTabId = tabId /\ remainingTabs # {}
                    THEN switchTab(remainingTabs, d.panes, activeTabId,
                                   focusedPaneId, MaxOf(remainingTabs))
                    ELSE [active |-> activeTabId, focused |-> focusedPaneId]
          IN /\ panes' = d.panes
             /\ tabs' = remainingTabs
             /\ activeTabId' = sw.active
             /\ focusedPaneId' = sw.focused
             /\ destroyQ' = destroyQ \cup d.destroy
             /\ destroySent' = Sent(destroySent, d.destroy)
             /\ ops' = DisturbTab(ops, tabId)
             /\ kids' = Collect(d.kids, d.panes, remainingTabs, ops')
             /\ lastSplit' = ForgetSplit(tabId)
             /\ oneAtATime' = (oneAtATime /\ DOMAIN ops = {})
             /\ UNCHANGED closeQ
  /\ wrote' = NoWrite
  /\ UNCHANGED << boot, ignored, toMain, ptys, drag, centres, moved, dirs, cwds, variant, mainVars, calls, dataQ, exitQ, quit, paneIdCounter,
                  tabIdCounter, timers, shortcuts, threw >>
  /\ Track

\* A click on a tab: switchTab.
tabClick(tabId) ==
  /\ tabId \in tabs
  /\ LET sw == switchTab(tabs, panes, activeTabId, focusedPaneId, tabId)
     IN /\ activeTabId' = sw.active
        /\ focusedPaneId' = sw.focused
  /\ wrote' = NoWrite
  /\ UNCHANGED << boot, ignored, toMain, ptys, drag, centres, moved, dirs, cwds, variant, mainVars, ipcVars, quit, panes, paneIdCounter, tabs,
                  tabIdCounter, kids, ops, timers, shortcuts, threw, destroySent,
                  oneAtATime, lastSplit >>
  /\ Track

\* A click on a pane shown in the active tab: focusPane.
paneClick(paneId) ==
  /\ paneId \in DOMAIN panes
  /\ activeTabId \in tabs
  /\ Top(kids, PaneEl(paneId)) = ContentEl(activeTabId)
  /\ focusedPaneId' = focusPane(panes, focusedPaneId, paneId)
  /\ wrote' = NoWrite
  /\ UNCHANGED << boot, ignored, toMain, ptys, drag, centres, moved, dirs, cwds, variant, mainVars, ipcVars, quit, panes, paneIdCounter,
                  tabVars, kids, ops, timers, shortcuts, threw, destroySent,
                  oneAtATime, lastSplit >>
  /\ Track

\* Array.prototype.indexOf, counted from 0: -1 when the element is absent.
indexOf(s, e) == IF e \in SeqRange(s) THEN IndexOf(s, e) - 1 ELSE -1

\* A step forward that stops at the newest tab instead of wrapping.
nextIndexNoWrap(currentIndex, length) ==
  IF currentIndex + 1 < length THEN currentIndex + 1 ELSE currentIndex

\* nextTab's and prevTab's index arithmetic.
nextIndex(currentIndex, length) == (currentIndex + 1) % length
prevIndex(currentIndex, length) == (currentIndex - 1 + length) % length

\* The tab nextTab / prevTab hands to switchTab; the active tab itself stands
\* for the early return.  The keys of the Map come in insertion order, which is
\* the order of the tab ids.
nextTabId(ts, active) ==
  LET tabIds == SortedSeq(ts)
  IN IF Len(tabIds) <= 1 THEN active
     ELSE tabIds[nextIndex(indexOf(tabIds, active), Len(tabIds)) + 1]
prevTabId(ts, active) ==
  LET tabIds == SortedSeq(ts)
  IN IF Len(tabIds) <= 1 THEN active
     ELSE tabIds[prevIndex(indexOf(tabIds, active), Len(tabIds)) + 1]

\* The tab.next shortcut: TabManager.nextTab.
nextTab ==
  /\ shortcuts
  /\ ~quit
  /\ LET sw == IF Cardinality(tabs) <= 1
               THEN [active |-> activeTabId, focused |-> focusedPaneId]
               ELSE switchTab(tabs, panes, activeTabId, focusedPaneId,
                              nextTabId(tabs, activeTabId))
     IN /\ activeTabId' = sw.active
        /\ focusedPaneId' = sw.focused
  /\ wrote' = NoWrite
  /\ UNCHANGED << boot, ignored, toMain, ptys, drag, centres, moved, dirs, cwds, variant, mainVars, ipcVars, quit, panes, paneIdCounter, tabs,
                  tabIdCounter, kids, ops, timers, shortcuts, threw, destroySent,
                  oneAtATime, lastSplit >>
  /\ Track

\* The tab.prev shortcut: TabManager.prevTab.
prevTab ==
  /\ shortcuts
  /\ ~quit
  /\ LET sw == IF Cardinality(tabs) <= 1
               THEN [active |-> activeTabId, focused |-> focusedPaneId]
               ELSE switchTab(tabs, panes, activeTabId, focusedPaneId,
                              prevTabId(tabs, activeTabId))
     IN /\ activeTabId' = sw.active
        /\ focusedPaneId' = sw.focused
  /\ wrote' = NoWrite
  /\ UNCHANGED << boot, ignored, toMain, ptys, drag, centres, moved, dirs, cwds, variant, mainVars, ipcVars, quit, panes, paneIdCounter, tabs,
                  tabIdCounter, kids, ops, timers, shortcuts, threw, destroySent,
                  oneAtATime, lastSplit >>
  /\ Track

\* The pane.focusNext shortcut: PaneManager.focusNextPane.
focusNextPane ==
  /\ shortcuts
  /\ ~quit
  /\ LET tabPanes == IF focusedPaneId \in DOMAIN panes
                     THEN getPanesForTab(panes, panes[focusedPaneId].tabId)
                     ELSE << >>
         currentIndex == indexOf(tabPanes, focusedPaneId)
         next == (currentIndex + 1) % Len(tabPanes)
     IN focusedPaneId' = IF Len(tabPanes) <= 1 THEN focusedPaneId
                         ELSE focusPane(panes, focusedPaneId, tabPanes[next + 1])
  /\ wrote' = NoWrite
  /\ UNCHANGED << boot, ignored, toMain, ptys, drag, centres, moved, dirs, cwds, variant, mainVars, ipcVars, quit, panes,
                  paneIdCounter, tabVars, kids, ops, timers, shortcuts, threw,
                  destroySent, oneAtATime, lastSplit >>
  /\ Track

\* ------------------------------------------------- renderer: focusDirection
Abs(n) == IF n < 0 THEN -n ELSE n
FocusDirections == {"up", "down", "left", "right"}

\* The dead zone of focusDirection.
DeadZone == 10

isValidDirection(direction, dx, dy) ==
  CASE direction = "up" -> dy < -DeadZone
    [] direction = "down" -> dy > DeadZone
    [] direction = "left" -> dx < -DeadZone
    [] direction = "right" -> dx > DeadZone

\* A distance that weighs both axes alike.
distanceManhattan(direction, dx, dy) == 2 * Abs(dx) + 2 * Abs(dy)

\* Twice focusDirection's distance, which keeps it an integer:
\* Math.abs(primary) + Math.abs(cross) * 0.5.  Centres are multiples of one
\* half, so the floating-point sums are exact and doubling keeps their order.
distance(direction, dx, dy) ==
  IF direction \in {"up", "down"} THEN 2 * Abs(dy) + Abs(dx)
  ELSE 2 * Abs(dx) + Abs(dy)

\* The loop over panePositions from index i on, with the best candidate found
\* so far (0 is null, whose bestScore is Infinity).
RECURSIVE bestCandidate(_, _, _, _, _, _, _)
bestCandidate(tabPanes, cs, focused, direction, i, best, bestScore) ==
  IF i > Len(tabPanes) THEN best
  ELSE LET p == tabPanes[i]
           dx == cs[p][1] - cs[focused][1]
           dy == cs[p][2] - cs[focused][2]
           better == /\ p # focused
                     /\ isValidDirection(direction, dx, dy)
                     /\ (best = 0 \/ distance(direction, dx, dy) < bestScore)
       IN IF better
          THEN bestCandidate(tabPanes, cs, focused, direction, i + 1, p,
                             distance(direction, dx, dy))
          ELSE bestCandidate(tabPanes, cs, focused, direction, i + 1, best,
                             bestScore)

\* A pane.focusUp / Down / Left / Right shortcut: PaneManager.focusDirection.
focusDirection(direction) ==
  /\ shortcuts
  /\ ~quit
  /\ LET tabPanes == IF focusedPaneId \in DOMAIN panes
                     THEN getPanesForTab(panes, panes[focusedPaneId].tabId)
                     ELSE << >>
         best == IF Len(tabPanes) <= 1 THEN 0
                 ELSE bestCandidate(tabPanes, centres, focusedPaneId, direction,
                                    1, 0, 0)
     IN focusedPaneId' = IF best # 0 THEN focusPane(panes, focusedPaneId, best)
                         ELSE focusedPaneId
  /\ moved' = [direction |-> direction, from |-> focusedPaneId]
  /\ wrote' = NoWrite
  /\ UNCHANGED << boot, ignored, toMain, ptys, drag, centres, dirs, cwds, variant, mainVars, ipcVars, quit, panes, paneIdCounter,
                  tabVars, kids, ops, timers, shortcuts, threw, destroySent,
                  oneAtATime, lastSplit >>
  /\ Track

\* The user's cd, typed into the pane of a live session.
Chdir(terminalId) ==
  /\ terminalId \in alive
  /\ \E paneId \in DOMAIN panes : panes[paneId].terminalId = terminalId
  /\ \E d \in dirs \cup {HomeDir} :
       /\ d # cwds[terminalId]
       /\ cwds' = [cwds EXCEPT ![terminalId] = d]
  /\ wrote' = NoWrite
  /\ UNCHANGED << boot, ignored, toMain, ptys, drag, centres, moved, dirs, variant, mainVars, ipcVars, quit, paneVars,
                  tabVars, kids, ops, timers, shortcuts, threw, destroySent,
                  oneAtATime, lastSplit >>
  /\ Track

\* ------------------------------------------------ renderer: divider drag
\* The minimum size of a child of a split, in px.
MinSize == 100
\* The sizes (offsetWidth or offsetHeight, in px) the layout can give a child
\* of a split container, and the positions (clientX or clientY) of the mouse.
SizeSet == {40, 100, 300}
PosSet == {0, 200}

Max(a, b) == IF a >= b THEN a ELSE b
Min(a, b) == IF a <= b THEN a ELSE b

\* onMouseMove: the size of the first child; the second gets the rest.
newSize1(totalSize, size) == Max(MinSize, Min(totalSize - MinSize, size))

\* The registered panes whose element is child or lies inside it.
PanesInside(k, ps, child) ==
  {p \in DOMAIN ps : PaneEl(p) \in {child} \cup Descendants(k, child)}

\* The mousedown listener of the divider of split container c: the drag starts,
\* with the mouse at pos and the children of c at the sizes the layout has
\* given them.
onMouseDown(c, pos, sizes) ==
  /\ ~quit
  /\ ~drag.isDragging
  /\ c \in DOMAIN kids
  /\ IsSplit(c)
  /\ DividerEl(c[2]) \in SeqRange(kids[c])
  /\ Top(kids, c) = ContentEl(activeTabId)
  /\ Len(sizes) = Len(NonDividers(kids, c))
  /\ drag' = [isDragging |-> TRUE, container |-> c, startPos |-> pos,
              startSizes |-> sizes, flex |-> drag.flex]
  /\ wrote' = NoWrite
  /\ UNCHANGED << boot, ignored, toMain, ptys, centres, moved, dirs, cwds, variant, mainVars,
                  ipcVars, quit, paneVars, tabVars, kids, ops, timers, shortcuts,
                  threw, destroySent, oneAtATime, lastSplit >>
  /\ Track

\* The mousemove listener during a drag: the two children get their new sizes
\* as flex: 0 0 <size>px, and every pane inside them is fitted and sends its
\* terminal-resize.  The messages of the move before have been handled.
onMouseMove(pos) ==
  /\ ~quit
  /\ drag.isDragging
  /\ toMain = {}
  /\ LET delta == pos - drag.startPos
         children == NonDividers(kids, drag.container)
         totalSize == drag.startSizes[1] + drag.startSizes[2]
         size1 == newSize1(totalSize, drag.startSizes[1] + delta)
         size2 == totalSize - size1
         fitted == PanesInside(kids, panes, children[1])
                     \cup PanesInside(kids, panes, children[2])
     IN IF Len(children) >= 2
        THEN /\ \A p \in fitted : ptys[panes[p].terminalId].resize < MaxCalls
             /\ drag' = [drag EXCEPT !.flex = [grow |-> 0, basis |-> <<size1, size2>>]]
             /\ toMain' = {<<"terminal-resize", panes[p].terminalId>> : p \in fitted}
        ELSE UNCHANGED << drag, toMain >>
  /\ wrote' = NoWrite
  /\ UNCHANGED << boot, ignored, ptys, centres, moved, dirs, cwds, variant, mainVars, destroyQ,
                  closeQ, calls, dataQ, exitQ, quit, paneVars, tabVars, kids, ops,
                  timers, shortcuts, threw, destroySent, oneAtATime, lastSplit >>
  /\ Track

\* The mouseup listener: the drag ends and both children go back to flex: 1.
\* What the closure still holds is not read again before the next mousedown
\* overwrites it.
onMouseUp ==
  /\ ~quit
  /\ drag.isDragging
  /\ drag' = NoDrag
  /\ wrote' = NoWrite
  /\ UNCHANGED << boot, ignored, toMain, ptys, centres, moved, dirs, cwds, variant, mainVars,
                  ipcVars, quit, paneVars, tabVars, kids, ops, timers, shortcuts,
                  threw, destroySent, oneAtATime, lastSplit >>
  /\ Track

\* ipcRenderer.send of terminal-input, terminal-resize or terminal-destroy with
\* an id the sender holds: the main process takes the id as it comes, so the
\* senders are left open and the id is any id.  MaxCalls bounds the
\* terminal-destroy messages sent in all, and the terminal-input and
\* terminal-resize messages whose handling is on record.

SendToMain(channel, terminalId) ==
  /\ ~quit
  /\ toMain = {}
  /\ SumOver([t \in TerminalIds |-> ptys[t].write + ptys[t].resize], TerminalIds)
       + Cardinality(ignored) < MaxCalls
  /\ toMain' = {<<channel, terminalId>>}
  /\ wrote' = NoWrite
  /\ UNCHANGED << boot, ignored, ptys, drag, centres, moved, dirs, cwds, variant, mainVars, ipcVars, quit,
                  paneVars, tabVars, kids, ops, timers, shortcuts, threw,
                  destroySent, oneAtATime, lastSplit >>
  /\ Track

SendTerminalDestroy(terminalId) ==
  /\ ~quit
  /\ terminalId \notin destroyQ
  /\ SumOver(destroySent, TerminalIds) < MaxCalls
  /\ destroyQ' = destroyQ \cup {terminalId}
  /\ destroySent' = [destroySent EXCEPT ![terminalId] = @ + 1]
  /\ wrote' = NoWrite
  /\ UNCHANGED << boot, ignored, toMain, ptys, drag, centres, moved, dirs, cwds, variant, mainVars, closeQ,
                  calls, dataQ, exitQ, quit, paneVars, tabVars, kids, ops, timers,
                  shortcuts, threw, oneAtATime, lastSplit >>
  /\ Track

\* --------------------------------------------------------- specification
PaneIds == 1..MaxPaneId
TabIds == 1..MaxTabId

\* The window's life without the terminals' output, which changes neither the
\* layout nor a registry.
Next ==
  \/ MainTerminalCreate
  \/ \E terminalId \in TerminalIds : MainTerminalDestroy(terminalId)
  \/ MainWindowClose
  \/ \E terminalId \in TerminalIds : PtyExit(terminalId)
  \/ createTab
  \/ \E direction \in Directions : splitPane(direction)
  \/ OnCwdReply
  \/ OnCreateReply
  \/ OnCreateError
  \/ \E terminalId \in TerminalIds : OnTerminalExit(terminalId)
  \/ \E paneId \in PaneIds : TimerFire(paneId)
  \/ paneClose
  \/ \E tabId \in TabIds : closeTab(tabId)
  \/ \E tabId \in TabIds : tabClick(tabId)
  \/ \E paneId \in PaneIds : paneClick(paneId)

Spec == Init /\ [][Next]_vars

\* The keyboard and the mouse moving the focus over the tabs and panes the user
\* creates, with the tab switches recorded; nothing is closed and no shell
\* exits.
FocusInit ==
  /\ Constructed
  /\ boot = BootOver
  /\ dirs = {}
  /\ away = NoAway

FocusNext ==
  \/ MainTerminalCreate
  \/ createTab
  \/ \E direction \in Directions : splitPane(direction)
  \/ OnCwdReply
  \/ OnCreateReply
  \/ OnCreateError
  \/ focusNextPane
  \/ \E tabId \in TabIds : tabClick(tabId)
  \/ nextTab
  \/ prevTab
  \/ \E paneId \in PaneIds : paneClick(paneId)

FocusSpec == FocusInit /\ [][FocusNext]_vars

\* The terminals' output on its way through the same life; the clicks that only
\* move the focus are left to Spec.
DataNext ==
  \/ MainTerminalCreate
  \/ \E terminalId \in TerminalIds : MainTerminalDestroy(terminalId)
  \/ MainWindowClose
  \/ \E terminalId \in TerminalIds : PtyData(terminalId)
  \/ \E terminalId \in TerminalIds : PtyExit(terminalId)
  \/ createTab
  \/ \E direction \in Directions : splitPane(direction)
  \/ OnCwdReply
  \/ OnCreateReply
  \/ OnCreateError
  \/ \E terminalId \in TerminalIds : OnTerminalData(terminalId)
  \/ \E terminalId \in TerminalIds : OnTerminalExit(terminalId)
  \/ \E paneId \in PaneIds : TimerFire(paneId)
  \/ paneClose
  \/ \E tabId \in TabIds : closeTab(tabId)

DataSpec == Init /\ [][DataNext]_vars

\* The main process's table of ptys under every order of messages: tabs are
\* created, shells exit, and terminal-destroy, terminal-input and
\* terminal-resize arrive for any id, before, during and after the session's
\* life.
PtyNext ==
  \/ MainTerminalCreate
  \/ \E terminalId \in TerminalIds : MainTerminalDestroy(terminalId)
  \/ \E terminalId \in TerminalIds : MainTerminalInput(terminalId)
  \/ \E terminalId \in TerminalIds : MainTerminalResize(terminalId)
  \/ \E terminalId \in TerminalIds : PtyExit(terminalId)
  \/ createTab
  \/ OnCwdReply
  \/ OnCreateReply
  \/ OnCreateError
  \/ \E terminalId \in TerminalIds :
       \E channel \in {"terminal-input", "terminal-resize"} :
         SendToMain(channel, terminalId)
  \/ \E terminalId \in TerminalIds : SendTerminalDestroy(terminalId)

PtySpec == Init /\ [][PtyNext]_vars

\* The creation of tabs and panes with the shells' directories: the shells
\* change directory and exit, the user moves the focus, creates tabs and splits.
Dirs == {"/work"}

CwdInit ==
  /\ Constructed
  /\ boot = BootOver
  /\ dirs = Dirs
  /\ away = Untracked

CwdNext ==
  \/ MainTerminalCreate
  \/ \E terminalId \in TerminalIds : PtyExit(terminalId)
  \/ \E terminalId \in TerminalIds : Chdir(terminalId)
  \/ createTab
  \/ \E direction \in Directions : splitPane(direction)
  \/ OnCwdReply
  \/ OnCreateReply
  \/ OnCreateError
  \/ \E paneId \in PaneIds : paneClick(paneId)

CwdSpec == CwdInit /\ [][CwdNext]_vars

\* The tab bar on its own.  NavTabs tabs were created one after another, each
\* with its first pane, and some of them were closed since; any open tab can be
\* the active one, and its pane holds the focus.
NavTabs == 4

NavInit ==
  \E closed \in SUBSET (1..NavTabs) :
    /\ closed # 1..NavTabs
    /\ variant \in {"main.js", "part_001"}
    /\ tabs = (1..NavTabs) \ closed
    /\ tabIdCounter = NavTabs
    /\ activeTabId \in tabs
    /\ panes = [p \in tabs |-> [tabId |-> p, terminalId |-> p]]
    /\ paneIdCounter = NavTabs
    /\ focusedPaneId = activeTabId
    /\ kids = [c \in {ContentEl(t) : t \in tabs} |-> <<PaneEl(c[2])>>]
    /\ ptyProcesses = tabs
    /\ terminalIdCounter = NavTabs
    /\ alive = tabs
    /\ destroyQ = {}
    /\ closeQ = FALSE
    /\ calls = << >>
    /\ dataQ = [t \in 1..NavTabs |-> 0]
    /\ exitQ = {}
    /\ quit = FALSE
    /\ ops = [o \in {} |-> 0]
    /\ timers = {}
    /\ shortcuts = TRUE
    /\ threw = FALSE
    /\ wrote = NoWrite
    /\ destroySent = [t \in 1..NavTabs |-> IF t \in closed THEN 1 ELSE 0]
    /\ oneAtATime = TRUE
    /\ lastSplit = NoSplit
    /\ away = NoAway
    /\ centres = << >>
    /\ moved = NoMove
    /\ dirs = {}
    /\ cwds = [t \in 1..NavTabs |-> HomeDir]
    /\ ptys = [t \in 1..NavTabs |-> NoCalls]
    /\ toMain = {}
  /\ ignored = {}
  /\ drag = NoDrag
  /\ boot = BootOver

NavNext ==
  \/ nextTab
  \/ prevTab

NavSpec == NavInit /\ [][NavNext]_vars

\* The pane registry with the geometry of its panes.  GeoPanes panes were
\* created in turn, the first by the first createTab, each later one by a
\* createTab or by a split of the newest pane of its tab; their centres are what
\* the window's size and the dividers' positions make them, any distinct points
\* of a grid.  Any pane can hold the focus, and its tab is the active one.
GeoPanes == 3
GridX == {-100, 0, 10, 100}
GridY == {0, 100, 200}

RECURSIVE Grown(_, _, _)
Grown(k, tabOf, p) ==
  IF p > GeoPanes THEN k
  ELSE LET tabId == tabOf[p]
           before == {q \in 1..(p - 1) : tabOf[q] = tabId}
           el == PaneEl(MaxOf(before))
           splitContainer == SplitEl("vertical", p)
           k1 == InsertBefore(CreateElement(k, splitContainer),
                              ParentElement(k, el), splitContainer, el)
           k2 == AppendChild(AppendChild(k1, splitContainer, el), splitContainer,
                             DividerEl(p))
       IN IF before = {}
          THEN Grown(AppendChild(CreateElement(k, ContentEl(tabId)),
                                 ContentEl(tabId), PaneEl(p)), tabOf, p + 1)
          ELSE Grown(AppendChild(k2, splitContainer, PaneEl(p)), tabOf, p + 1)

\* The registry, the DOM and the main process's table after the panes
\* 1..GeoPanes were created in the tabs tabOf gives them.
Grounded(tabOf) ==
  /\ tabOf[1] = 1
  /\ variant \in {"main.js", "part_001"}
  /\ tabs = {tabOf[p] : p \in 1..GeoPanes}
  /\ tabIdCounter = Cardinality(tabs)
  /\ panes = [p \in 1..GeoPanes |-> [tabId |-> tabOf[p], terminalId |-> p]]
  /\ paneIdCounter = GeoPanes
  /\ focusedPaneId \in 1..GeoPanes
  /\ activeTabId = tabOf[focusedPaneId]
  /\ kids = Grown([c \in {} |-> << >>], tabOf, 1)
  /\ ptyProcesses = 1..GeoPanes
  /\ terminalIdCounter = GeoPanes
  /\ alive = 1..GeoPanes
  /\ destroyQ = {}
  /\ closeQ = FALSE
  /\ calls = << >>
  /\ dataQ = [t \in 1..GeoPanes |-> 0]
  /\ exitQ = {}
  /\ quit = FALSE
  /\ ops = [o \in {} |-> 0]
  /\ timers = {}
  /\ shortcuts = TRUE
  /\ threw = FALSE
  /\ wrote = NoWrite
  /\ destroySent = [t \in 1..GeoPanes |-> 0]
  /\ oneAtATime = TRUE
  /\ lastSplit = NoSplit
  /\ away = Untracked
  /\ moved = NoMove
  /\ dirs = {}
  /\ cwds = [t \in 1..GeoPanes |-> HomeDir]
  /\ ptys = [t \in 1..GeoPanes |-> NoCalls]
  /\ toMain = {}
  /\ ignored = {}
  /\ drag = NoDrag
  /\ boot = BootOver

GeoInit ==
  \E tabOf \in [1..GeoPanes -> 1..2] :
    /\ Grounded(tabOf)
    /\ centres \in [1..GeoPanes -> GridX \X GridY]
    /\ \A p, q \in 1..GeoPanes : p # q => centres[p] # centres[q]

GeoNext ==
  \E direction \in FocusDirections : focusDirection(direction)

GeoSpec == GeoInit /\ [][GeoNext]_vars

\* The same registries with a divider of the active tab dragged: the mouse goes
\* down on a divider with its split's children at any sizes of SizeSet, moves
\* to any position of PosSet and goes up, and the main process handles the
\* terminal-resize messages the moves send.
DragInit ==
  \E tabOf \in [1..GeoPanes -> 1..2] :
    /\ Grounded(tabOf)
    /\ centres = << >>

DragNext ==
  \/ \E c \in DOMAIN kids : \E pos \in PosSet : \E sizes \in [1..2 -> SizeSet] :
       onMouseDown(c, pos, sizes)
  \/ \E pos \in PosSet : onMouseMove(pos)
  \/ onMouseUp
  \/ \E terminalId \in 1..GeoPanes : MainTerminalResize(terminalId)

DragSpec == DragInit /\ [][DragNext]_vars

\* The same registries when their sessions end: the processes exit, the user
\* closes panes and tabs, and the event loop does its work, handling a
\* terminal-exit message that has arrived and running a timer that is due.
ExitInit ==
  \E tabOf \in [1..GeoPanes -> 1..2] :
    /\ Grounded(tabOf)
    /\ centres = << >>

ExitNext ==
  \/ \E terminalId \in 1..GeoPanes : MainTerminalDestroy(terminalId)
  \/ \E terminalId \in 1..GeoPanes : PtyExit(terminalId)
  \/ \E terminalId \in 1..GeoPanes : OnTerminalExit(terminalId)
  \/ \E paneId \in 1..GeoPanes : TimerFire(paneId)
  \/ paneClose
  \/ \E tabId \in 1..2 : closeTab(tabId)

\* A pending timer of pane paneId leaves the timer queue.  Its callback has no
\* condition of its own, so this is enabled exactly when TimerFire(paneId) is,
\* and no other step of ExitNext takes a timer off the queue.
TimerDue(paneId) ==
  \E tm \in timers : tm.paneId = paneId /\ timers' = timers \ {tm}

ExitSpec ==
  /\ ExitInit
  /\ [][ExitNext]_vars
  /\ WF_vars(\E terminalId \in 1..GeoPanes : OnTerminalExit(terminalId))
  /\ \A paneId \in 1..GeoPanes : WF_timers(TimerDue(paneId))

\* =================================================================== claims
SplitClasses == {"split-horizontal", "split-vertical"}
PaneLeaf(p) == [cls |-> "pane", id |-> p, kids |-> << >>]
DividerLeaf == [cls |-> "split-divider", id |-> 0, kids |-> << >>]
SplitOf(direction, p, q) ==
  [cls |-> SplitClass(direction), id |-> 0,
   kids |-> <<PaneLeaf(p), DividerLeaf, PaneLeaf(q)>>]

\* The shape s with the leaf of pane p replaced by the shape new.
RECURSIVE Graft(_, _, _)
Graft(s, p, new) ==
  IF s = PaneLeaf(p) THEN new
  ELSE [cls |-> s.cls, id |-> s.id,
        kids |-> [i \in 1..Len(s.kids) |-> Graft(s.kids[i], p, new)]]

RECURSIVE SumSeq(_)
SumSeq(q) == IF q = << >> THEN 0 ELSE Head(q) + SumSeq(Tail(q))
\* The nodes of shape s whose class is in classes.
RECURSIVE CountNodes(_, _)
CountNodes(s, classes) ==
  (IF s.cls \in classes THEN 1 ELSE 0)
  + SumSeq([i \in 1..Len(s.kids) |-> CountNodes(s.kids[i], classes)])

\* C1: starting from a tab with a single pane, after every completed splitPane
\* or closePane (run one at a time, closePane only when the tab has more than
\* one pane), every split container has exactly two non-divider children, each
\* a pane or a split container.
C1_ValidBinaryTree ==
  (oneAtATime /\ DOMAIN ops = {}) =>
    \A c \in DOMAIN kids :
      IsSplit(c) =>
        LET ch == NonDividers(kids, c)
        IN /\ Len(ch) = 2
           /\ \A i \in 1..Len(ch) : IsPaneEl(ch[i]) \/ IsSplit(ch[i])

\* Two splits and a close, one at a time: a split is still there.
C1_Witness ==
  /\ oneAtATime
  /\ DOMAIN ops = {}
  /\ Cardinality(DOMAIN panes) = 2
  /\ paneIdCounter > 2
  /\ \E c \in DOMAIN kids : IsSplit(c) /\ Len(NonDividers(kids, c)) = 2

\* C2: after terminal-destroy was sent for session k (by closePane or
\* destroyAllPanesInTab), a terminal-data event of k that reaches the renderer
\* raises no error and is written to no pane's terminal, in both main-process
\* variants.
C2_LateDataDropped ==
  [][\A k \in TerminalIds :
       (wrote'.terminalId = k /\ destroySent[k] > 0)
         => (wrote'.pane = 0 /\ threw' = threw)]_vars

\* Output of a destroyed session was delivered while panes were registered.
C2_Witness ==
  /\ wrote.late
  /\ wrote.terminalId # 0
  /\ wrote.pane = 0
  /\ DOMAIN panes # {}

\* What the renderer holds, the grace timers aside.
RendererSame ==
  /\ panes' = panes
  /\ kids' = kids
  /\ focusedPaneId' = focusedPaneId
  /\ tabs' = tabs
  /\ activeTabId' = activeTabId
  /\ ops' = ops
  /\ destroySent' = destroySent
  /\ destroyQ' = destroyQ

\* C3: in every interleaving of a session's exit event, the grace timer it
\* starts and a user's close of the same pane or of its tab: terminal-destroy
\* is sent at most once per session, an exit event closes nothing (and changes
\* nothing at all when its pane is gone), a timer whose pane is gone changes
\* nothing, and a timer closes no pane and destroys no session but its own.
C3_ExitCloseRace ==
  [][~quit' =>
       /\ \A k \in TerminalIds : destroySent'[k] <= 1
       /\ \A k \in exitQ \ exitQ' :
            /\ panes' = panes /\ destroySent' = destroySent /\ tabs' = tabs
            /\ PaneOfTerminal(panes, k) = 0 => (RendererSame /\ timers' = timers)
       /\ \A tm \in timers \ timers' :
            /\ tm.paneId \notin DOMAIN panes => RendererSame
            /\ \A p \in DOMAIN panes \ DOMAIN panes' :
                 p = tm.paneId /\ panes[p].terminalId = tm.terminalId
            /\ \A k \in TerminalIds :
                 destroySent'[k] > destroySent[k] => k = tm.terminalId
            /\ tabs' = tabs]_vars

\* The user closed a pane during its grace second and its tab still has more
\* than one pane when the timer is due.
C3_Witness ==
  \E tm \in timers :
    /\ tm.paneId \notin DOMAIN panes
    /\ destroySent[tm.terminalId] = 1
    /\ getPaneCountForTab(panes, tm.tabId) > 1

\* C4 as stated: every registered pane's session id is in the main process's
\* table and no two panes have the same session id.
C4_PaneSessionLive ==
  \A p \in DOMAIN panes :
    /\ panes[p].terminalId \in ptyProcesses
    /\ \A q \in DOMAIN panes : q # p => panes[q].terminalId # panes[p].terminalId

\* C4: every registered pane has one session id that was handed out by the
\* main process, no two panes have the same one, and it is in the main
\* process's table for as long as the session's process has not exited.
C4_PaneSessionLiveUntilExit ==
  \A p \in DOMAIN panes :
    /\ panes[p].terminalId \in 1..terminalIdCounter
    /\ panes[p].terminalId \in alive => panes[p].terminalId \in ptyProcesses
    /\ \A q \in DOMAIN panes : q # p => panes[q].terminalId # panes[p].terminalId

\* Two registered panes, one with a running session, one whose process exited.
C4_Witness ==
  \E p, q \in DOMAIN panes :
    /\ panes[p].terminalId \in ptyProcesses
    /\ panes[q].terminalId \notin alive
    /\ panes[q].terminalId \notin ptyProcesses

\* C5: with no createTab or splitPane suspended, every tab in the tab
\* collection has at least one registered pane.
C5_EveryTabHasPane ==
  DOMAIN ops = {} => \A t \in tabs : getPaneCountForTab(panes, t) >= 1

\* C6: with no pane creation in flight and no terminal-destroy on its way,
\* every session in the main process's table is the session of exactly one
\* registered pane whose tab is open.
C6_SessionOwnedByOpenPane ==
  (DOMAIN ops = {} /\ destroyQ = {} /\ ~closeQ) =>
    \A k \in ptyProcesses :
      Cardinality({p \in DOMAIN panes :
                     panes[p].terminalId = k /\ panes[p].tabId \in tabs}) = 1

\* C7: splitPane(p, 'vertical') immediately followed by closePane of the pane
\* it created leaves the tab's tree with exactly the shape it had before the
\* split.
C7_SplitThenCloseRestores ==
  (lastSplit.closed = "new" /\ lastSplit.direction = "vertical"
   /\ lastSplit.tabId \in tabs)
    => TabShape(kids, lastSplit.tabId) = lastSplit.snap

\* The pane that was split and restored sits first in a split.
C7_Witness ==
  /\ lastSplit.closed = "new"
  /\ lastSplit.direction = "vertical"
  /\ lastSplit.tabId \in tabs
  /\ \E c \in DOMAIN kids :
       IsSplit(c) /\ kids[c] # << >> /\ kids[c][1] = PaneEl(lastSplit.pane)

\* C8: when closePane, run on its own, removes a pane whose sibling under the
\* same split is a split, the parent split is removed, the sibling takes the parent's slot in
\* the grandparent, every container inside the sibling keeps its children, and
\* no other split is removed.
C8_CollapseOneLevel ==
  [][\A p \in DOMAIN panes \ DOMAIN panes' :
       LET parent == ParentElement(kids, PaneEl(p))
           grandparent == ParentElement(kids, parent)
           siblings == NonDividers(Remove(kids, PaneEl(p)), parent)
       IN (oneAtATime /\ DOMAIN ops = {} /\ tabs' = tabs /\ ~quit'
           /\ IsSplit(parent) /\ grandparent # Null
           /\ Len(siblings) = 1 /\ IsSplit(siblings[1]))
            => /\ parent \notin DOMAIN kids'
               /\ kids'[grandparent] =
                    [i \in 1..Len(kids[grandparent]) |->
                       IF kids[grandparent][i] = parent THEN siblings[1]
                       ELSE kids[grandparent][i]]
               /\ \A c \in Containers(kids, siblings[1]) :
                    c \in DOMAIN kids' /\ kids'[c] = kids[c]
               /\ \A c \in DOMAIN kids \ DOMAIN kids' : IsSplit(c) => c = parent]_vars

\* C9: a completed splitPane(p, direction) leaves, in the slot p had, a new
\* split container with p first and one new pane of p's tab second; the tree
\* has one leaf and one split more and is otherwise the tree before the call.
C9_SplitReplacesLeaf ==
  (lastSplit.newPane # 0 /\ lastSplit.closed = "" /\ lastSplit.tabId \in tabs) =>
    LET now == TabShape(kids, lastSplit.tabId)
        was == lastSplit.snap
    IN /\ now = Graft(was, lastSplit.pane,
                      SplitOf(lastSplit.direction, lastSplit.pane, lastSplit.newPane))
       /\ CountNodes(now, {"pane"}) = CountNodes(was, {"pane"}) + 1
       /\ CountNodes(now, SplitClasses) = CountNodes(was, SplitClasses) + 1
       /\ lastSplit.pane \in DOMAIN panes
       /\ lastSplit.newPane \in DOMAIN panes
       /\ panes[lastSplit.newPane].tabId = panes[lastSplit.pane].tabId
       /\ panes[lastSplit.newPane].tabId = lastSplit.tabId

\* A pane that already sat in a split has just been split.
C9_Witness ==
  /\ lastSplit.newPane # 0
  /\ lastSplit.closed = ""
  /\ lastSplit.tabId \in tabs
  /\ CountNodes(lastSplit.snap, SplitClasses) = 1
  /\ CountNodes(TabShape(kids, lastSplit.tabId), SplitClasses) = 2

\* C10: closePane(p) removes pane p and no other from the registry and sends
\* terminal-destroy for p's session and no other; the main process drops from
\* its table only a session whose terminal-destroy it handles or whose process
\* exits; and after splitPane(A) created B in a tab holding A alone,
\* closePane(A) leaves B alone at the root of the tab, registered, with its
\* session in the table while its process runs.
C10_ClosePaneFrame ==
  [][~quit' =>
       /\ \A p \in DOMAIN panes \ DOMAIN panes' :
            tabs' = tabs =>
              /\ DOMAIN panes' = DOMAIN panes \ {p}
              /\ \A q \in DOMAIN panes' : panes'[q] = panes[q]
              /\ destroySent' = Sent(destroySent, {panes[p].terminalId})
              /\ ptyProcesses' = ptyProcesses
       /\ \A k \in ptyProcesses \ ptyProcesses' :
            \/ k \in destroyQ \ destroyQ'
            \/ k \in alive \ alive'
       /\ (lastSplit'.closed = "old" /\ lastSplit'.tabId \in tabs'
           /\ lastSplit'.snap.kids = <<PaneLeaf(lastSplit'.pane)>>)
            => /\ kids'[ContentEl(lastSplit'.tabId)] = <<PaneEl(lastSplit'.newPane)>>
               /\ lastSplit'.newPane \in DOMAIN panes'
               /\ lastSplit'.pane \notin DOMAIN panes'
               /\ panes'[lastSplit'.newPane].terminalId \in alive'
                    => panes'[lastSplit'.newPane].terminalId \in ptyProcesses']_vars

\* After splitPane(A) and closePane(A): B is alone at the root, its session is
\* in the table and A's is not.
C10_Witness ==
  /\ lastSplit.closed = "old"
  /\ lastSplit.tabId \in tabs
  /\ lastSplit.snap.kids = <<PaneLeaf(lastSplit.pane)>>
  /\ kids[ContentEl(lastSplit.tabId)] = <<PaneEl(lastSplit.newPane)>>
  /\ panes[lastSplit.newPane].terminalId \in ptyProcesses
  /\ \E k \in TerminalIds : destroySent[k] = 1 /\ k \notin ptyProcesses

\* C11: with at least two tabs open, closeTab(t) removes the tab and the
\* panes of t, sends terminal-destroy for the session of each of them and for
\* no other, and leaves every other pane, the main process's table and the
\* tree of every other tab as they were.
C11_CloseTabFrame ==
  [][\A t \in tabs \ tabs' :
       ~quit' =>
         LET gone == {p \in DOMAIN panes : panes[p].tabId = t}
         IN /\ tabs' = tabs \ {t}
            /\ DOMAIN panes' = DOMAIN panes \ gone
            /\ \A q \in DOMAIN panes' : panes'[q] = panes[q]
            /\ destroySent' = Sent(destroySent, {panes[p].terminalId : p \in gone})
            /\ destroyQ' = destroyQ \cup {panes[p].terminalId : p \in gone}
            /\ ptyProcesses' = ptyProcesses
            /\ \A u \in tabs' :
                 \A c \in Containers(kids, ContentEl(u)) :
                   c \in DOMAIN kids' /\ kids'[c] = kids[c]]_vars

\* Tab 2 was closed with its pane; tab 1 keeps its pane and its session, and
\* the closed pane's session has left the table.
C11_Witness ==
  /\ tabs = {1}
  /\ tabIdCounter = 2
  /\ paneIdCounter = 2
  /\ DOMAIN panes = {1}
  /\ panes[1].terminalId \in ptyProcesses
  /\ \E k \in TerminalIds : destroySent[k] = 1 /\ k \notin ptyProcesses

\* C12: closeTab on the only open tab removes no tab and sends window-close;
\* from the first createTab until the window is closed the tab collection is
\* never empty.
C12_LastTabStays ==
  [][~quit' =>
       /\ tabIdCounter' > 0 => tabs' # {}
       /\ \A t \in tabs :
            (closeTab(t) /\ Cardinality(tabs) = 1)
              => (tabs' = tabs /\ panes' = panes /\ closeQ' /\ destroySent' = destroySent)]_vars

\* A second tab was opened and closed, and closing the one tab left has sent
\* window-close.
C12_Witness ==
  /\ closeQ
  /\ Cardinality(tabs) = 1
  /\ tabIdCounter = 2
  /\ ~quit

\* C13: switchTab(t) on an existing tab changes the active-tab pointer only:
\* no session is destroyed, no pane is removed, no layout tree is altered, and
\* a pane of t that holds the focus keeps it.
C13_SwitchTabOnlyActive ==
  [][\A t \in tabs :
       tabClick(t) =>
         /\ panes' = panes
         /\ kids' = kids
         /\ tabs' = tabs
         /\ ptyProcesses' = ptyProcesses
         /\ destroySent' = destroySent
         /\ destroyQ' = destroyQ
         /\ (focusedPaneId \in DOMAIN panes /\ panes[focusedPaneId].tabId = t)
              => focusedPaneId' = focusedPaneId]_vars

\* C14: each tab keeps its own focused pane: when pane p holds the focus in tab
\* T, a switch to another tab and a switch back to T, with no pane of T created
\* or closed in between, leave p the focused pane.  Stated of the runs in which
\* no operation overlapped another or failed.
C14_TabKeepsFocus ==
  (away.back /\ oneAtATime /\ DOMAIN ops = {}) => focusedPaneId = away.pane

\* The tab created next after tab a among the open tabs ts, the oldest one
\* after the newest; and the tab created last before a, the newest one before
\* the oldest.
TabAfter(ts, a) ==
  LET later == {t \in ts : t > a}
  IN IF later # {} THEN CHOOSE t \in later : \A u \in later : t <= u
     ELSE CHOOSE t \in ts : \A u \in ts : t <= u
TabBefore(ts, a) ==
  LET earlier == {t \in ts : t < a}
  IN IF earlier # {} THEN CHOOSE t \in earlier : \A u \in earlier : t >= u
     ELSE CHOOSE t \in ts : \A u \in ts : t >= u
\* The active tab after k calls of nextTab.
RECURSIVE AfterNextTabs(_, _, _)
AfterNextTabs(ts, a, k) ==
  IF k = 0 THEN a ELSE nextTabId(ts, AfterNextTabs(ts, a, k - 1))

\* C15: with n >= 2 open tabs nextTab activates the tab created next after the
\* active one, wrapping from the newest to the oldest, and prevTab does the
\* reverse; nextTab then prevTab returns to the starting tab; n calls of nextTab
\* activate every tab once and return to the start.  With one tab both are
\* no-ops.
C15_TabCycle ==
  [][LET n == Cardinality(tabs)
     IN /\ nextTab => activeTabId' = IF n >= 2 THEN TabAfter(tabs, activeTabId)
                                      ELSE activeTabId
        /\ prevTab => activeTabId' = IF n >= 2 THEN TabBefore(tabs, activeTabId)
                                      ELSE activeTabId
        /\ (nextTab \/ prevTab) => tabs' = tabs /\ panes' = panes
        /\ prevTabId(tabs, nextTabId(tabs, activeTabId)) = activeTabId
        /\ {AfterNextTabs(tabs, activeTabId, k) : k \in 1..n} = tabs
        /\ AfterNextTabs(tabs, activeTabId, n) = activeTabId]_vars
\* nextTab has just wrapped from the newest of three or more tabs to the oldest.
C15_Witness ==
  /\ Cardinality(tabs) >= 3
  /\ away.tab # 0 /\ ~away.back
  /\ \A t \in tabs : away.tab >= t /\ activeTabId <= t

\* The delta of pane p from pane f along the axis of direction d, counted
\* positive in that direction, and the delta across it.
PrimaryDelta(d, p, f) ==
  CASE d = "up" -> centres[f][2] - centres[p][2]
    [] d = "down" -> centres[p][2] - centres[f][2]
    [] d = "left" -> centres[f][1] - centres[p][1]
    [] d = "right" -> centres[p][1] - centres[f][1]
CrossDelta(d, p, f) ==
  IF d \in {"up", "down"} THEN centres[p][1] - centres[f][1]
  ELSE centres[p][2] - centres[f][2]
\* Twice the score |primary delta| + 0.5 * |cross delta|.
Score2(d, p, f) == 2 * Abs(PrimaryDelta(d, p, f)) + Abs(CrossDelta(d, p, f))

\* C16: focusDirection(d) focuses, among the other panes of the focused
\* pane's tab, the one whose centre lies more than 10 units from the focused
\* pane's centre in direction d and whose score |primary delta| + 0.5 * |cross
\* delta| is minimal, the first in iteration order on equal scores; with no
\* eligible pane the focus stays.  'right' from x = 0 with panes at x = 100 and
\* x = -100 selects the pane at x = 100.
C16_FocusDirection ==
  [][\A d \in FocusDirections :
       (focusDirection(d) /\ focusedPaneId \in DOMAIN panes) =>
         LET f == focusedPaneId
             eligible == {p \in PanesOf(panes, panes[f].tabId) \ {f} :
                            PrimaryDelta(d, p, f) > 10}
             minimal == {p \in eligible :
                           \A q \in eligible : Score2(d, p, f) <= Score2(d, q, f)}
         IN /\ focusedPaneId' = IF eligible = {} THEN f
                                ELSE CHOOSE p \in minimal : \A q \in minimal : p <= q
            /\ (/\ d = "right"
                /\ centres[f][1] = 0
                /\ \E p, q \in PanesOf(panes, panes[f].tabId) :
                     centres[p][1] = 100 /\ centres[q][1] = -100)
                 => centres[focusedPaneId'][1] = 100]_vars
\* 'right' was called on a pane centred at x = 0 whose tab has a pane at x = 100
\* and one at x = -100, and the pane at x = 100 has the focus.
C16_Witness ==
  /\ moved.direction = "right"
  /\ moved.from \in DOMAIN panes
  /\ centres[moved.from][1] = 0
  /\ centres[focusedPaneId][1] = 100
  /\ \E q \in PanesOf(panes, panes[moved.from].tabId) : centres[q][1] = -100

\* The pane ids at the leaves below element e, depth first and left to right.
RECURSIVE Leaves(_, _)
RECURSIVE LeavesOfAll(_, _)
LeavesOfAll(k, es) ==
  IF es = << >> THEN << >> ELSE Leaves(k, Head(es)) \o LeavesOfAll(k, Tail(es))
Leaves(k, e) ==
  IF IsPaneEl(e) THEN <<e[2]>>
  ELSE IF e \in DOMAIN k THEN LeavesOfAll(k, k[e])
  ELSE << >>

\* C17: focusNextPane moves the focus to the pane that follows the focused one
\* in the depth-first, left-to-right flattening of its tab's layout tree, and
\* from the last leaf to the first.  Stated of the trees built by splits that
\* ran one at a time.
C17_FocusNextDepthFirst ==
  [][(/\ focusNextPane
      /\ oneAtATime /\ DOMAIN ops = {}
      /\ focusedPaneId \in DOMAIN panes
      /\ panes[focusedPaneId].tabId \in tabs) =>
       LET leaves == Leaves(kids, ContentEl(panes[focusedPaneId].tabId))
           i == IndexOf(leaves, focusedPaneId)
       IN focusedPaneId' = leaves[(i % Len(leaves)) + 1]]_vars

\* The session of registered pane p has exited, the exit is on its way to the
\* renderer, and p's tab has other panes.
ExitedWithSiblings(p) ==
  /\ p \in DOMAIN panes
  /\ panes[p].terminalId \in exitQ
  /\ getPaneCountForTab(panes, panes[p].tabId) > 1
\* No grace timer of pane p is pending and no exit of its session is on its way.
GraceOver(p) ==
  /\ \A tm \in timers : tm.paneId # p
  /\ p \in DOMAIN panes => panes[p].terminalId \notin exitQ

\* C18 as stated: a pane whose session exits while its tab has sibling panes is
\* eventually removed from the registry.
C18_ExitedPaneClosed ==
  \A p \in 1..GeoPanes : ExitedWithSiblings(p) ~> (p \notin DOMAIN panes)

\* C18: when a session exits while its pane's tab has sibling panes, the grace
\* timer eventually runs; if the pane is registered and its tab has another pane
\* at that moment, the pane leaves the registry and the tab's layout tree and
\* terminal-destroy is sent for its session; if it has become the last pane of
\* its tab, it stays.
C18_ExitedPaneClosedIfSiblingsLast ==
  /\ \A p \in 1..GeoPanes :
       ExitedWithSiblings(p) ~> (p \notin DOMAIN panes \/ GraceOver(p))
  /\ [][\A tm \in timers \ timers' :
          (~quit' /\ tm.paneId \in DOMAIN panes) =>
            IF getPaneCountForTab(panes, tm.tabId) > 1
            THEN /\ tm.paneId \notin DOMAIN panes'
                 /\ \A c \in DOMAIN kids' : PaneEl(tm.paneId) \notin SeqRange(kids'[c])
                 /\ destroySent'[tm.terminalId] = destroySent[tm.terminalId] + 1
            ELSE /\ panes' = panes
                 /\ kids' = kids
                 /\ destroySent' = destroySent]_vars
\* A pane of the only tab is gone with its session exited, terminal-destroy
\* sent once and the grace period over, and the focus rests on a pane that is
\* not the tab's first: the timer closed the pane, for a close by the user
\* takes the focused pane and moves the focus to the first pane of the tab.
C18_Witness ==
  /\ tabs = {1}
  /\ tabIdCounter = 1
  /\ timers = {}
  /\ exitQ = {}
  /\ focusedPaneId \in DOMAIN panes
  /\ focusedPaneId # getPanesForTab(panes, 1)[1]
  /\ \E p \in 1..GeoPanes :
       /\ DOMAIN panes = (1..GeoPanes) \ {p}
       /\ p \notin alive
       /\ destroySent[p] = 1
       /\ \A c \in DOMAIN kids : PaneEl(p) \notin SeqRange(kids[c])

\* C19 as stated: when a session exits while its pane is the last pane of its
\* tab, the timer that exit starts never closes the pane, whatever happened in
\* between.
C19_LastPaneNeverClosed ==
  [][\A tm \in timers \ timers' :
       (tm.alone /\ ~quit' /\ tm.paneId \in DOMAIN panes)
         => tm.paneId \in DOMAIN panes']_vars

\* C19: when a session exits while its pane is the last pane of its tab, the
\* exit starts one timer and no more; when that timer runs and the pane is
\* still the last pane of its tab, nothing is closed and nothing destroyed, and
\* the pane stays; when a split has given the tab a second pane in the
\* meantime, the timer closes the exited pane.
C19_LastPaneKeptIfStillLast ==
  [][~quit' =>
       /\ \A tm \in timers \ timers' :
            (tm.alone /\ tm.paneId \in DOMAIN panes) =>
              IF getPaneCountForTab(panes, tm.tabId) <= 1
              THEN /\ panes' = panes
                   /\ kids' = kids
                   /\ destroySent' = destroySent
                   /\ destroyQ' = destroyQ
              ELSE tm.paneId \notin DOMAIN panes'
       /\ \A tm \in timers' \ timers :
            /\ tm.terminalId \in exitQ \ exitQ'
            /\ tm.alone = (getPaneCountForTab(panes, tm.tabId) <= 1)
       /\ \A k \in exitQ' \ exitQ : k \in alive \ alive']_vars
\* The only pane ever created is registered, its session has exited, the exit
\* was handled and its timer has run.
C19_Witness ==
  /\ paneIdCounter = 1
  /\ DOMAIN panes = {1}
  /\ panes[1].terminalId \notin alive
  /\ panes[1].terminalId \notin ptyProcesses
  /\ exitQ = {}
  /\ timers = {}
  /\ \A k \in TerminalIds : destroySent[k] = 0
  /\ ~quit

\* C20: the first pane of a new tab is spawned with the working directory that
\* terminal-get-cwd reports for the pane focused when createTab was called, a
\* pane created by splitPane with that of the pane being split; when the query
\* answers null (no focused pane, a session that is unknown or has exited, a
\* probe that fails) the session is spawned in the home directory.
C20_CwdInherited ==
  [][/\ \A o \in DOMAIN ops' \ DOMAIN ops :
          ops'[o].asked =
            IF ops'[o].kind = "splitPane" THEN panes[ops'[o].pane].terminalId
            ELSE IF focusedPaneId \in DOMAIN panes
            THEN panes[focusedPaneId].terminalId
            ELSE 0
     /\ \A o \in DOMAIN ops \cap DOMAIN ops' :
          (ops[o].pc = "cwd" /\ ops'[o].pc # "cwd") =>
            /\ ops'[o].asked = ops[o].asked
            /\ ops'[o].cwd \in {NullCwd, cwds[ops[o].asked]}
            /\ ops[o].asked \notin ptyProcesses => ops'[o].cwd = NullCwd
     /\ \A o \in DOMAIN ops' :
          (ops'[o].asked = 0 /\ ops'[o].pc # "cwd") => ops'[o].cwd = NullCwd
     /\ terminalIdCounter' # terminalIdCounter =>
          LET call == ops[NextCreate]
          IN cwds'[terminalIdCounter'] =
               IF call.cwd = NullCwd THEN HomeDir ELSE call.cwd]_vars
\* The session of a new tab's first pane, not yet shown in a pane, was spawned
\* in the directory the shell of the focused pane had been taken to.
C20_Witness ==
  \E o \in DOMAIN ops :
    /\ ops[o].kind = "createTab"
    /\ ops[o].pc = "created"
    /\ focusedPaneId \in DOMAIN panes
    /\ cwds[ops[o].terminalId] \in Dirs
    /\ cwds[ops[o].terminalId] = cwds[panes[focusedPaneId].terminalId]


\* C21: terminal-destroy is idempotent.  Handled for an id the table holds, it
\* calls kill() once on that session's process, which had not been signalled
\* before, and removes the entry in the same step; handled for any other id (a
\* second destroy, an id never handed out, a session whose process has exited)
\* it leaves the table as it is and calls kill() on no process.
C21_DestroyIdempotent ==
  [][\A t \in TerminalIds :
       MainTerminalDestroy(t) =>
         /\ alive' = alive
         /\ terminalIdCounter' = terminalIdCounter
         /\ IF t \in ptyProcesses
            THEN /\ ptyProcesses' = ptyProcesses \ {t}
                 /\ ptys[t].kill = 0
                 /\ ptys' = [ptys EXCEPT ![t].kill = 1]
            ELSE /\ ptyProcesses' = ptyProcesses
                 /\ ptys' = ptys]_vars
\* Two terminal-destroy messages for one session have been handled while its
\* process has yet to exit: it was signalled once.
C21_Witness ==
  \E t \in TerminalIds :
    /\ destroySent[t] = 2
    /\ t \notin destroyQ
    /\ t \in alive
    /\ ptys[t].kill = 1


\* C22: a session leaves the table when terminal-destroy is handled for it and
\* when its process exits, and never comes back; a terminal-input or a
\* terminal-resize handled for an id the table does not hold calls write() and
\* resize() on no pty and leaves the table as it is.
C22_RemovedSessionIgnoresInput ==
  [][\A t \in TerminalIds :
       /\ (MainTerminalDestroy(t) \/ PtyExit(t)) => t \notin ptyProcesses'
       /\ (t <= terminalIdCounter /\ t \notin ptyProcesses) => t \notin ptyProcesses'
       /\ ((MainTerminalInput(t) \/ MainTerminalResize(t)) /\ t \notin ptyProcesses) =>
            /\ ptys' = ptys
            /\ ptyProcesses' = ptyProcesses
            /\ alive' = alive]_vars
\* A terminal-input has been handled for a session that terminal-destroy had
\* removed, and a terminal-resize for one whose process had exited.
C22_Witness ==
  \E t, u \in TerminalIds :
    /\ t \in alive
    /\ t \notin ptyProcesses
    /\ ptys[t].kill = 1
    /\ u <= terminalIdCounter
    /\ u \notin alive
    /\ destroySent[u] = 0
    /\ \E p \in DOMAIN panes : panes[p].terminalId = u
    /\ ignored = {<<"terminal-input", t>>, <<"terminal-resize", u>>}


\* C23: when pty.spawn throws during a createTab or a splitPane that runs on its
\* own, the operation is undone: no entry is added to the main process's table,
\* no pane is registered, the tab collection has no new tab and the tab's
\* layout tree is the one splitPane found.
C23_SpawnFailureAborts ==
  [][(/\ OnCreateError
      /\ oneAtATime
      /\ DOMAIN ops = {Head(calls)}) =>
       LET call == ops[Head(calls)]
       IN /\ ptyProcesses' = ptyProcesses
          /\ terminalIdCounter \notin ptyProcesses
          /\ panes' = panes
          /\ call.kind = "createTab" => call.tabId \notin tabs'
          /\ call.kind = "splitPane" => TabShape(kids', call.tabId) = call.snap]_vars


\* The step is one of the suspended call o itself: it resumes after an await.
Resumes(o) ==
  /\ calls # << >>
  /\ Head(calls) = o
  /\ OnCwdReply \/ OnCreateReply \/ OnCreateError

\* C24: mutations of one tab's layout tree never overlap.  From the call of
\* splitPane until its new pane is registered, the steps of that splitPane
\* aside, no step changes the layout tree or the registered panes of the tab
\* the split is made in (no closePane, no auto-close after an exit, no other
\* splitPane takes effect), as long as the tab is open.
C24_SplitExcludesMutations ==
  [][\A o \in DOMAIN ops :
       (/\ ops[o].kind = "splitPane"
        /\ ops[o].tabId \in tabs'
        /\ ~Resumes(o)) =>
         /\ TabShape(kids', ops[o].tabId) = TabShape(kids, ops[o].tabId)
         /\ PanesOf(panes', ops[o].tabId) = PanesOf(panes, ops[o].tabId)]_vars


\* C25: while a divider is dragged, whatever the total size of the two children
\* and the position of the mouse, the sizes a move gives the children are both
\* at least the minimum size, and the first child's share of the total is
\* strictly between 0 and 1.
C25_DragClamped ==
  (drag.isDragging /\ drag.flex.grow = 0) =>
    LET totalSize == drag.startSizes[1] + drag.startSizes[2]
        size1 == drag.flex.basis[1]
        size2 == drag.flex.basis[2]
    IN /\ size1 >= MinSize
       /\ size2 >= MinSize
       /\ 0 < size1
       /\ size1 < totalSize


\* C26: a terminal-data event of session k is written to the terminal of the
\* one registered pane whose session is k, and to no pane when none is
\* registered for k; no two panes have the same session, and the event changes
\* nothing else in the registry.
C26_DataToOwnPane ==
  [][\A k \in TerminalIds :
       OnTerminalData(k) =>
         LET owners == {p \in DOMAIN panes : panes[p].terminalId = k}
         IN /\ Cardinality(owners) <= 1
            /\ wrote'.terminalId = k
            /\ IF owners = {} THEN wrote'.pane = 0 ELSE owners = {wrote'.pane}
            /\ wrote'.pane # 0 => wrote'.paneTerminal = k
            /\ panes' = panes
            /\ kids' = kids]_vars
\* Output of a session has been written to its pane, which is neither the
\* oldest nor the newest of the registered panes.
C26_Witness ==
  /\ wrote.pane # 0
  /\ wrote.paneTerminal = wrote.terminalId
  /\ \E p, q \in DOMAIN panes : p < wrote.pane /\ wrote.pane < q


\* C27: whenever a pane holds the focus and no createTab is suspended, that
\* pane is registered and belongs to the active tab.  Stated of the states in
\* which no spawn has failed, no handler has thrown and every registered pane
\* is in an open tab.
C27_FocusInActiveTab ==
  (/\ focusedPaneId # 0
   /\ ~threw
   /\ \A p \in DOMAIN panes : panes[p].tabId \in tabs
   /\ \A o \in DOMAIN ops : ops[o].kind # "createTab") =>
    /\ focusedPaneId \in DOMAIN panes
    /\ panes[focusedPaneId].tabId = activeTabId


\* C28: after splitPane and closePane calls that ran one at a time, every split
\* container with two pane-or-split children has exactly one divider among its
\* children, between the two.
C28_OneDividerPerSplit ==
  (oneAtATime /\ DOMAIN ops = {}) =>
    \A c \in DOMAIN kids :
      (IsSplit(c) /\ Len(NonDividers(kids, c)) = 2) =>
        /\ Len(kids[c]) = 3
        /\ ~IsDivider(kids[c][1])
        /\ IsDivider(kids[c][2])
        /\ ~IsDivider(kids[c][3])


\* ------------------------------------------------------------------- C29
\* The ids in use in the main process's table, among the registered panes,
\* the tabs and the requests in flight: none is above its counter.
IdsIssued ==
  /\ ptyProcesses \subseteq 1..terminalIdCounter
  /\ DOMAIN panes \subseteq 1..paneIdCounter
  /\ tabs \subseteq 1..tabIdCounter
  /\ \A o \in DOMAIN ops :
       /\ ops[o].newPane <= paneIdCounter
       /\ ops[o].terminalId <= terminalIdCounter
  /\ \A p \in DOMAIN panes : panes[p].terminalId \in 1..terminalIdCounter

\* The requests a step hands a session id to, and those it hands a pane id to.
GotTerminalId ==
  {o \in DOMAIN ops' : /\ ops'[o].terminalId # 0
                       /\ o \in DOMAIN ops => ops[o].terminalId = 0}

GotPaneId ==
  {o \in DOMAIN ops' : /\ ops'[o].newPane # 0
                       /\ o \in DOMAIN ops => ops[o].newPane = 0}

\* C29: session ids, pane ids and tab ids are never reused.  No counter ever
\* goes down; every id in use is at most its counter; an id a step hands out
\* (a session entering the table or returned to createPane, a pane id taken by
\* createPane, a tab entering the tab table) is the counter plus one, hence
\* above every id handed out before, whatever was destroyed, has exited or
\* failed to spawn since; and a pane that is registered carries the ids its
\* own createPane was given, with a session no other pane holds and no
\* terminal-destroy was ever sent for.
C29_IdsNeverReused ==
  [][/\ IdsIssued
     /\ terminalIdCounter' \in {terminalIdCounter, terminalIdCounter + 1}
     /\ paneIdCounter' \in {paneIdCounter, paneIdCounter + 1}
     /\ tabIdCounter' \in {tabIdCounter, tabIdCounter + 1}
     /\ ptyProcesses' \ ptyProcesses \subseteq {terminalIdCounter + 1}
     /\ ptyProcesses' \ ptyProcesses # {} => terminalIdCounter' = terminalIdCounter + 1
     /\ \A o \in GotTerminalId :
          /\ ops'[o].terminalId = terminalIdCounter + 1
          /\ terminalIdCounter' = terminalIdCounter + 1
     /\ \A o \in GotPaneId :
          /\ ops'[o].newPane = paneIdCounter + 1
          /\ paneIdCounter' = paneIdCounter + 1
     /\ tabs' \ tabs \subseteq {tabIdCounter + 1}
     /\ tabs' \ tabs # {} => tabIdCounter' = tabIdCounter + 1
     /\ \A p \in DOMAIN panes' \ DOMAIN panes :
          /\ \E o \in DOMAIN ops : /\ ops[o].newPane = p
                                   /\ ops[o].terminalId = panes'[p].terminalId
          /\ destroySent[panes'[p].terminalId] = 0
          /\ \A q \in DOMAIN panes : panes[q].terminalId # panes'[p].terminalId
    ]_vars

\* Session 1 was destroyed, session 2 exited or never spawned, and the create
\* after them returned 3, the session of a registered pane.
C29_Witness ==
  /\ terminalIdCounter = 3
  /\ 3 \in ptyProcesses
  /\ \E p \in DOMAIN panes : panes[p].terminalId = 3
  /\ destroySent[1] > 0
  /\ 1 \notin ptyProcesses
  /\ 2 \notin alive
  /\ destroySent[2] = 0


\* ------------------------------------------------------- the boot sequence
\* The entries of BootSequence.bootMessages.
NumMessages == 19

\* The BootSequence as its constructor leaves it, before run() is called.
\* Whether the page has the boot-screen and boot-output elements is the
\* document's matter: getElementById finds them or answers null.
Loaded(bootScreen, bootOutput) ==
  [pc |-> "loaded", line |-> 0, timers |-> 0, hidden |-> FALSE,
   displayed |-> bootScreen, completed |-> 0, clicks |-> 0,
   bootScreen |-> bootScreen, bootOutput |-> bootOutput]

\* BootSequence.hide: with a boot screen, the class hidden and a 500 ms timeout
\* that will call onComplete; without one, onComplete at once.
hide(b) ==
  IF b.bootScreen
  THEN [boot |-> [b EXCEPT !.hidden = TRUE, !.timers = @ + 1], completes |-> FALSE]
  ELSE [boot |-> b, completes |-> TRUE]

\* The onComplete callback up to its await: new PaneManager and TabManager
\* (their counters at 0, their tables empty) take the place of any earlier
\* pair in the renderer's globals, and createTab is called on the new
\* TabManager, which has no focused pane to ask for a directory: ++tabIdCounter,
\* the tab's content element, then createPane's ++paneIdCounter and its
\* terminal-create request.  Elements are told apart by their id, so the
\* content element of a later pair's tab 1 is the one already there.
onComplete ==
  LET o == SmallestFree(DOMAIN ops)
      tabId == nextId(0)
      paneId == nextId(0)
      call == [NewCall("createTab", 0, tabId, "", NoSnap) EXCEPT
                 !.pc = "create", !.newPane = paneId,
                 !.container = ContentEl(tabId)]
  IN /\ panes' = [p \in {} |-> 0]
     /\ focusedPaneId' = 0
     /\ paneIdCounter' = paneId
     /\ tabs' = {tabId}
     /\ tabIdCounter' = tabId
     /\ activeTabId' = 0
     /\ ops' = ops @@ (o :> call)
     /\ calls' = Append(calls, o)
     /\ kids' = Collect(CreateElement(kids, ContentEl(tabId)), panes', tabs', ops')

\* What a step of the boot sequence leaves: the BootSequence and the screen as
\* r.boot has them and, when the step called onComplete, what that call does.
BootStep(r) ==
  /\ boot' = [r.boot EXCEPT !.completed = IF r.completes THEN @ + 1 ELSE @]
  /\ IF r.completes
     THEN onComplete
     ELSE UNCHANGED << paneVars, tabVars, ops, calls, kids >>
  /\ UNCHANGED << ignored, toMain, ptys, drag, centres, moved, dirs, cwds, variant,
                  mainVars, destroyQ, closeQ, dataQ, exitQ, quit, timers, shortcuts,
                  threw, wrote, destroySent, oneAtATime, lastSplit, away >>

\* bootSequence.run() as DOMContentLoaded calls it, up to its first await:
\* without a boot-output element it calls onComplete and returns.
run ==
  /\ boot.pc = "loaded"
  /\ IF ~boot.bootOutput
     THEN BootStep([boot |-> [boot EXCEPT !.pc = "ended"], completes |-> TRUE])
     ELSE BootStep([boot |-> [boot EXCEPT !.pc = "lines"], completes |-> FALSE])

\* run()'s loop: a delay has passed and addLine appends the next message.
addLine ==
  /\ boot.pc = "lines"
  /\ boot.line < NumMessages
  /\ BootStep([boot |-> [boot EXCEPT !.line = @ + 1], completes |-> FALSE])

\* run() after its last delay(800): this.hide().  Nothing in run() looks at
\* whether the screen was hidden in the meantime.
runEnd ==
  /\ boot.pc = "lines"
  /\ boot.line = NumMessages
  /\ BootStep(hide([boot EXCEPT !.pc = "ended"]))

\* A click on the boot screen: bootSequence.skip(), which is hide().  The
\* listener is added after run() was called; a screen with display none takes
\* no clicks.
bootClick ==
  /\ boot.pc # "loaded"
  /\ boot.bootScreen
  /\ boot.displayed
  /\ boot.clicks < MaxClicks
  /\ BootStep(hide([boot EXCEPT !.clicks = @ + 1]))

\* A timeout armed by hide() fires: display none, then onComplete.
hideTimeout ==
  /\ boot.timers > 0
  /\ BootStep([boot |-> [boot EXCEPT !.timers = @ - 1, !.displayed = FALSE],
               completes |-> TRUE])

BootInit ==
  /\ Constructed
  /\ dirs = {}
  /\ away = Untracked
  /\ \E bootScreen \in BOOLEAN, bootOutput \in BOOLEAN :
       boot = Loaded(bootScreen, bootOutput)

BootNext ==
  \/ run
  \/ addLine
  \/ runEnd
  \/ bootClick
  \/ hideTimeout

BootSpec == BootInit /\ [][BootNext]_vars

\* ------------------------------------------------------------------- C30
\* C30: the multiplexer is initialised exactly once.  However the boot sequence
\* running to its end and the clicks on the boot screen interleave, onComplete
\* has run at most once, and at most one initial createTab was ever called.
C30_InitialisedOnce ==
  /\ boot.completed <= 1
  /\ Cardinality({o \in DOMAIN ops : ops[o].kind = "createTab"}) <= 1

====
